---- MODULE Spec2Model ----
(***************************************************************************)
(* BIAS-ATR grid trader: the decision engine (strategy.py), the indicator  *)
(* pipeline (indicators.py), the sqlite ledger (persistence.py) and the    *)
(* monitor's trigger loop (monitor.py).                                    *)
(*                                                                         *)
(* Units.  Floats of the program are fixed-point integers here:            *)
(*   prices read from candles / holdings / pairs : cents (0.01)            *)
(*   order prices, trigger prices, grid step     : 1/1000 cent (0.00001)   *)
(*   bias_20 and its thresholds                  : 0.01 percent            *)
(*   position percentages                        : percent                 *)
(*   volatility ratios, profit targets           : per mille               *)
(*   grid coefficients and multipliers           : tenths                  *)
(* Comparisons of quotients are made by cross-multiplication, so they are  *)
(* exact.  NaN is a distinguished value; every comparison with it is       *)
(* false, as in IEEE arithmetic.                                           *)
(***************************************************************************)
EXTENDS Integers, Sequences, FiniteSets, Bags, TLC

VARIABLES
    triggered_grids,   \* table triggered_grids: bag of rows
    grid_pairs,        \* table grid_pairs: sequence of rows, id = AUTOINCREMENT
    trade_history,     \* table trade_history: sequence of rows
    dbOk,              \* TRUE when sqlite operations succeed
    today,             \* calendar day (datetime.now() date)
    pending_orders,    \* GridMonitor.pending_orders: code -> orders
    call,              \* the last operation and its arguments
    ret,               \* what the last operation returned
    signals,           \* notifier.signal_alert calls: bag of levels
    submitted,         \* trader.place_order calls: bag of levels
    order_results,     \* the OrderResults check_triggers received and printed
    state,             \* web_server.state: MonitorState (etf_data, plans)
    conns,             \* per process: the sqlite connection of a running
                       \* mark_grid_triggered call (position, key, pending rows)
    db_lock            \* the process holding sqlite's write lock, 0 if none

vars == <<triggered_grids, grid_pairs, trade_history, dbOk, today,
          pending_orders, call, ret, signals, submitted, order_results, state,
          conns, db_lock>>

-----------------------------------------------------------------------------
(* config.py *)

LOT_SIZE == 100
TOTAL_CAPITAL == 200000
ETF_COUNT == 5
CAPITAL_PER_ETF == TOTAL_CAPITAL \div ETF_COUNT
MAX_DRAWDOWN_LIMIT == -20
DEEP_DIP == -600
GOLD_ZONE_UPPER == -300
OSCILLATION_UPPER == 500
REDUCE_ZONE_UPPER == 1200
ESCAPE_TOP_HIGH == 1500
TREND_REVERSAL == 300
LOOKBACK_DAYS == 3
TREND_THRESHOLD == 200
SELL_THRESHOLD == 75
MIN_PROFIT_PCT == 12
LOW_VOLATILITY_ATR == 15
HIGH_VOLATILITY_ATR == 30
LOW_VOL_MULTIPLIER == 8
HIGH_VOL_MULTIPLIER == 13
HIGH_VOLATILITY_PCT == 30
HIGH_PROFIT_TARGET == 20
LOW_VOLATILITY_PCT == 15
LOW_PROFIT_TARGET == 10
PRICE_ALERT_PCT == 5
AUTO_TRADE_ENABLED == TRUE

\* class TARGET_POSITION, in percent
TARGET_POSITION(zone) ==
    CASE zone = "DEEP_DIP" -> 95
      [] zone = "GOLD_ZONE" -> 75
      [] zone = "OSCILLATION" -> 55
      [] zone = "REDUCE_ZONE" -> 30
      [] zone = "ESCAPE_ZONE" -> 0

\* GRID_COEFFICIENT.get(zone, 1.0), in tenths
GRID_COEFFICIENT(zone) ==
    CASE zone = "DEEP_DIP" -> 8
      [] zone = "GOLD_ZONE" -> 10
      [] zone = "OSCILLATION" -> 12
      [] zone = "REDUCE_ZONE" -> 15
      [] OTHER -> 10

-----------------------------------------------------------------------------
(* Arithmetic helpers *)

\* One cent in order-price units.
PriceScale == 10 * 100

\* A value no price, bias or indicator of the model takes.
NaN == 0 - 2^30
IsNaN(x) == x = NaN

Lt(a, b) == ~IsNaN(a) /\ ~IsNaN(b) /\ a < b
Gt(a, b) == ~IsNaN(a) /\ ~IsNaN(b) /\ a > b
Le(a, b) == ~IsNaN(a) /\ ~IsNaN(b) /\ a <= b

Max(a, b) == IF a >= b THEN a ELSE b
Min(a, b) == IF a <= b THEN a ELSE b
Abs(a) == IF a < 0 THEN 0 - a ELSE a

\* dict.get(key, default)
Get(h, k, default) == IF k \in DOMAIN h THEN h[k] ELSE default

-----------------------------------------------------------------------------
(* persistence.py: GridStateManager.  Every operation opens its own        *)
(* connection inside try/except; ok = FALSE stands for a sqlite3 error     *)
(* raised by connect/execute, which the except branch logs and swallows.   *)

\* ABS(price - ?) < 0.0001, in order-price units
PRICE_TOLERANCE == 10

SamePrimaryKey(row, date, code, price, direction) ==
    /\ row.date = date
    /\ row.code = code
    /\ row.price = price
    /\ row.direction = direction

\* Mutant: the lookup does not compare the date.
is_grid_triggered_AnyDate(tbl, ok, date, code, price, direction) ==
    IF ~ok THEN FALSE
    ELSE \E row \in BagToSet(tbl) :
            /\ row.code = code
            /\ Abs(row.price - price) < PRICE_TOLERANCE
            /\ row.direction = direction

is_grid_triggered(tbl, ok, date, code, price, direction) ==
    IF ~ok THEN FALSE
    ELSE \E row \in BagToSet(tbl) :
            /\ row.date = date
            /\ row.code = code
            /\ Abs(row.price - price) < PRICE_TOLERANCE
            /\ row.direction = direction

TriggerRow(date, code, price, direction) ==
    [date |-> date, code |-> code, price |-> price, direction |-> direction]

\* Mutant: a plain INSERT into a table without the primary key.
mark_grid_triggered_PlainInsert(tbl, ok, date, code, price, direction) ==
    IF ~ok THEN tbl
    ELSE tbl (+) SetToBag({TriggerRow(date, code, price, direction)})

\* Mutant: the primary key compares prices with the lookup tolerance.
mark_grid_triggered_ToleranceKey(tbl, ok, date, code, price, direction) ==
    IF ~ok \/ is_grid_triggered(tbl, ok, date, code, price, direction) THEN tbl
    ELSE tbl (+) SetToBag({TriggerRow(date, code, price, direction)})

\* Mutant: the INSERT is never committed.
mark_grid_triggered_NoCommit(tbl, ok, date, code, price, direction) == tbl

\* INSERT OR IGNORE under PRIMARY KEY (date, code, price, direction)
mark_grid_triggered(tbl, ok, date, code, price, direction) ==
    IF ~ok THEN tbl
    ELSE IF \E row \in BagToSet(tbl) : SamePrimaryKey(row, date, code, price, direction)
         THEN tbl
         ELSE tbl (+) SetToBag({TriggerRow(date, code, price, direction)})

add_grid_pair(tbl, ok, code, buy_price, buy_amount, target_sell_price) ==
    IF ~ok THEN tbl
    ELSE Append(tbl, [id |-> Len(tbl) + 1, code |-> code, buy_price |-> buy_price,
                      buy_amount |-> buy_amount,
                      target_sell_price |-> target_sell_price, status |-> "OPEN"])

\* ORDER BY buy_price DESC; rows of equal buy_price stay in rowid order.
RECURSIVE InsertByBuyPriceDesc(_, _)
InsertByBuyPriceDesc(sorted, row) ==
    IF sorted = <<>> THEN <<row>>
    ELSE IF Head(sorted).buy_price >= row.buy_price
         THEN <<Head(sorted)>> \o InsertByBuyPriceDesc(Tail(sorted), row)
         ELSE <<row>> \o sorted

RECURSIVE OrderByBuyPriceDesc(_)
OrderByBuyPriceDesc(rows) ==
    IF rows = <<>> THEN <<>>
    ELSE InsertByBuyPriceDesc(OrderByBuyPriceDesc(SubSeq(rows, 1, Len(rows) - 1)),
                              rows[Len(rows)])

IsOpenPairOf(row, code) == row.code = code /\ row.status = "OPEN"

\* Mutant: the except branch is missing and rows read earlier are returned.
get_active_pairs_IgnoresFailure(tbl, ok, code) ==
    LET Open(row) == IsOpenPairOf(row, code)
    IN OrderByBuyPriceDesc(SelectSeq(tbl, Open))

get_active_pairs(tbl, ok, code) ==
    IF ~ok THEN <<>>
    ELSE LET Open(row) == IsOpenPairOf(row, code)
         IN OrderByBuyPriceDesc(SelectSeq(tbl, Open))

\* Mutant: the UPDATE flips the status, reopening a closed pair.
close_pair_Toggles(tbl, ok, pair_id) ==
    IF ~ok THEN tbl
    ELSE [i \in DOMAIN tbl |->
             IF tbl[i].id = pair_id
             THEN [tbl[i] EXCEPT !.status = IF @ = "OPEN" THEN "CLOSED" ELSE "OPEN"]
             ELSE tbl[i]]

\* Mutant: the UPDATE has no WHERE clause.
close_pair_NoWhere(tbl, ok, pair_id) ==
    IF ~ok THEN tbl
    ELSE [i \in DOMAIN tbl |-> [tbl[i] EXCEPT !.status = "CLOSED"]]

close_pair(tbl, ok, pair_id) ==
    IF ~ok THEN tbl
    ELSE [i \in DOMAIN tbl |->
             IF tbl[i].id = pair_id THEN [tbl[i] EXCEPT !.status = "CLOSED"]
             ELSE tbl[i]]

add_trade_record(tbl, ok, date, code, direction, price, volume, realized_pnl) ==
    IF ~ok THEN tbl
    ELSE Append(tbl, [code |-> code, direction |-> direction, price |-> price,
                      volume |-> volume, realized_pnl |-> realized_pnl,
                      date |-> date])

RECURSIVE SumPnl(_, _)
SumPnl(tbl, start_date) ==
    IF tbl = <<>> THEN 0
    ELSE (IF Head(tbl).date >= start_date THEN Head(tbl).realized_pnl ELSE 0)
         + SumPnl(Tail(tbl), start_date)

\* start_date = 0 stands for start_date=None (no WHERE clause)
get_realized_pnl(tbl, ok, start_date) ==
    IF ~ok THEN 0 ELSE SumPnl(tbl, start_date)

-----------------------------------------------------------------------------
(* indicators.py.  A candle series is represented by its length and by the *)
(* aggregates its trailing windows yield at the rows analyze reads:        *)
(*   df.len, df.close, df.ma5, df.atr, df.high20, df.rsi, df.kdj and       *)
(*   df.bias = bias of the last four rows, oldest first.                   *)
(* calculate_indicators keeps what pandas' rolling(window=k) keeps: a      *)
(* value where at least k rows end at that row, NaN elsewhere.             *)

MA5_WINDOW == 5
MA20_WINDOW == 20
ATR_WINDOW == 14
RSI_WINDOW == 14
KDJ_WINDOW == 9
HIGH_WINDOW == 20
MIN_ROWS == 5

\* bias_20 of the row `back` rows before the last one
BiasAt(df, back) ==
    IF df.len - back >= MA20_WINDOW THEN df.bias[4 - back] ELSE NaN

\* Mutant: windows computed with min_periods=1, never NaN.
calculate_indicators_MinPeriods1(df) ==
    [len |-> df.len, close |-> df.close, high20 |-> df.high20, ma_5 |-> df.ma5,
     bias_20 |-> df.bias, atr_14 |-> df.atr, rsi_14 |-> df.rsi, kdj_j |-> df.kdj]

calculate_indicators(df) ==
    [len |-> df.len,
     close |-> df.close,
     high20 |-> df.high20,
     ma_5 |-> IF df.len >= MA5_WINDOW THEN df.ma5 ELSE NaN,
     bias_20 |-> [k \in 1..4 |-> BiasAt(df, 4 - k)],
     atr_14 |-> IF df.len >= ATR_WINDOW THEN df.atr ELSE NaN,
     \* fillna(100)
     rsi_14 |-> IF df.len >= RSI_WINDOW THEN df.rsi ELSE 100,
     kdj_j |-> IF df.len >= KDJ_WINDOW THEN df.kdj ELSE NaN]

-----------------------------------------------------------------------------
(* strategy.py: GridStrategy *)

\* REBALANCE_THRESHOLD = 0.15 (local of analyze), in percent
REBALANCE_THRESHOLD == 15

round_to_lot(amount) == (amount \div LOT_SIZE) * LOT_SIZE

\* _detect_trend: <<is_uptrend, is_downtrend>>
detect_trend(frame) ==
    IF frame.len < LOOKBACK_DAYS + 1 THEN <<FALSE, FALSE>>
    ELSE LET recent_bias == frame.bias_20
             Rising(i) == /\ ~IsNaN(recent_bias[i]) /\ ~IsNaN(recent_bias[i + 1])
                          /\ recent_bias[i + 1] - recent_bias[i] > TREND_THRESHOLD
             Falling(i) == /\ ~IsNaN(recent_bias[i]) /\ ~IsNaN(recent_bias[i + 1])
                           /\ recent_bias[i + 1] - recent_bias[i] < 0 - TREND_THRESHOLD
             all_rising == \A i \in 1..LOOKBACK_DAYS : Rising(i)
             all_falling == \A i \in 1..LOOKBACK_DAYS : Falling(i)
         IN IF all_rising THEN <<TRUE, FALSE>>
            ELSE IF all_falling THEN <<FALSE, TRUE>>
            ELSE <<FALSE, FALSE>>

\* min_profit_pct of _calc_dynamic_step, per mille (price # 0)
MinProfitPct(atr, price) ==
    IF atr * 1000 > HIGH_VOLATILITY_PCT * price THEN HIGH_PROFIT_TARGET
    ELSE IF atr * 1000 < LOW_VOLATILITY_PCT * price THEN LOW_PROFIT_TARGET
    ELSE MIN_PROFIT_PCT

\* Mutant: the step is not clamped from below.
calc_dynamic_step_NoFloor(atr, price, zone) ==
    LET vol_mult == IF atr * 1000 < LOW_VOLATILITY_ATR * price THEN LOW_VOL_MULTIPLIER
                    ELSE IF atr * 1000 > HIGH_VOLATILITY_ATR * price
                         THEN HIGH_VOL_MULTIPLIER
                         ELSE 10
    IN atr * GRID_COEFFICIENT(zone) * vol_mult * (PriceScale \div 100)

\* _calc_dynamic_step, in order-price units (price # 0)
calc_dynamic_step(atr, price, zone) ==
    LET grid_coef == GRID_COEFFICIENT(zone)
        vol_mult == IF atr * 1000 < LOW_VOLATILITY_ATR * price THEN LOW_VOL_MULTIPLIER
                    ELSE IF atr * 1000 > HIGH_VOLATILITY_ATR * price
                         THEN HIGH_VOL_MULTIPLIER
                         ELSE 10
        base_step == atr * grid_coef * vol_mult * (PriceScale \div 100)
        min_step == price * MinProfitPct(atr, price) * (PriceScale \div 1000)
    IN Max(base_step, min_step)

\* Mutant: the interval bounds are closed on the wrong side.
RawZone_ClosedUpper(bias) ==
    IF bias <= DEEP_DIP THEN "DEEP_DIP"
    ELSE IF bias <= GOLD_ZONE_UPPER THEN "GOLD_ZONE"
    ELSE IF bias <= OSCILLATION_UPPER THEN "OSCILLATION"
    ELSE IF bias <= REDUCE_ZONE_UPPER THEN "REDUCE_ZONE"
    ELSE "ESCAPE_ZONE"

\* The standard partition of bias_20 (lines 194-208)
RawZone(bias) ==
    IF bias < DEEP_DIP THEN "DEEP_DIP"
    ELSE IF bias < GOLD_ZONE_UPPER THEN "GOLD_ZONE"
    ELSE IF bias < OSCILLATION_UPPER THEN "OSCILLATION"
    ELSE IF bias < REDUCE_ZONE_UPPER THEN "REDUCE_ZONE"
    ELSE "ESCAPE_ZONE"

bias_cross_down_3(bias, prev_bias) ==
    Gt(prev_bias, TREND_REVERSAL) /\ bias <= TREND_REVERSAL

\* Mutant: the mode switch spares the gold zone as well.
ClassifyZone_SwitchSparesGold(bias, prev_bias) ==
    IF bias_cross_down_3(bias, prev_bias) /\ RawZone(bias) \notin {"DEEP_DIP", "GOLD_ZONE"}
    THEN [zone |-> "OSCILLATION", market_status |-> "OSCILLATION (SWITCH)"]
    ELSE [zone |-> RawZone(bias), market_status |-> RawZone(bias)]

\* zone and market_status after the mode switch (lines 190-212)
ClassifyZone(bias, prev_bias) ==
    IF bias_cross_down_3(bias, prev_bias) /\ RawZone(bias) # "DEEP_DIP"
    THEN [zone |-> "OSCILLATION", market_status |-> "OSCILLATION (SWITCH)"]
    ELSE [zone |-> RawZone(bias), market_status |-> RawZone(bias)]

\* Dynamic anchoring (lines 246-257)
AnchorPrice(zone, price, ma_5) ==
    IF zone = "DEEP_DIP" THEN price
    ELSE IF IsNaN(ma_5) THEN price ELSE ma_5

\* Drawdown circuit breaker (lines 267-271)
DrawdownTriggered(price, current_vol, avg_cost) ==
    /\ current_vol > 0
    /\ avg_cost > 0
    /\ (price - avg_cost) * 100 < MAX_DRAWDOWN_LIMIT * avg_cost

\* Mutant: half of the holding without the one-lot minimum.
TrailingSellVolume_NoMinimum(current_vol) == round_to_lot(current_vol \div 2)

\* Forced 50% reduction (lines 298-299)
TrailingSellVolume(current_vol) == round_to_lot(Max(100, current_vol \div 2))

\* Mutant: the retracement is taken with the wrong sign.
TrailingStopCondition_Reversed(recent_high, price, atr, current_vol) ==
    /\ ~IsNaN(recent_high)
    /\ price - recent_high > 3 * atr
    /\ current_vol > 0

\* ATR trailing stop condition (lines 288-293)
TrailingStopCondition(recent_high, price, atr, current_vol) ==
    /\ ~IsNaN(recent_high)
    /\ recent_high - price > 3 * atr
    /\ current_vol > 0

TradeOrder(direction, price, amount, type, desc, pair) ==
    [direction |-> direction, price |-> price, amount |-> amount,
     type |-> type, desc |-> desc, pair |-> pair]

Warning(tag, pair) == [tag |-> tag, pair |-> pair]

\* Mutant: the exit does not look at the shares still available.
PairHit_IgnoresAvailable(pair, price, avail) ==
    price * PriceScale * 200 >= pair.target_sell_price * 199

\* A pair is proposed for exit (lines 318, 322)
PairHit(pair, price, avail) ==
    /\ price * PriceScale * 200 >= pair.target_sell_price * 199
    /\ avail >= pair.buy_amount

\* Mutant: the loop does not deduct the exited shares from the available ones.
RECURSIVE PairExit_NoDeduction(_, _, _)
PairExit_NoDeduction(active_pairs, price, acc) ==
    IF active_pairs = <<>> THEN acc
    ELSE LET pair == Head(active_pairs)
             next == IF PairHit(pair, price, acc.avail)
                     THEN [orders |-> Append(acc.orders,
                               TradeOrder("SELL",
                                          Max(price * PriceScale, pair.target_sell_price),
                                          pair.buy_amount, "LIMIT", "pair_exit", pair.id)),
                           warnings |-> Append(acc.warnings, Warning("pair_exit", pair.id)),
                           avail |-> acc.avail]
                     ELSE acc
         IN PairExit_NoDeduction(Tail(active_pairs), price, next)

\* Grid pairing exit: the loop over active_pairs (lines 315-331).
\* acc = [orders, warnings, avail]
RECURSIVE PairExit(_, _, _)
PairExit(active_pairs, price, acc) ==
    IF active_pairs = <<>> THEN acc
    ELSE LET pair == Head(active_pairs)
             hit == PairHit(pair, price, acc.avail)
             next == IF hit
                     THEN [orders |-> Append(acc.orders,
                               TradeOrder("SELL",
                                          Max(price * PriceScale, pair.target_sell_price),
                                          pair.buy_amount, "LIMIT", "pair_exit", pair.id)),
                           warnings |-> Append(acc.warnings, Warning("pair_exit", pair.id)),
                           avail |-> acc.avail - pair.buy_amount]
                     ELSE acc
         IN PairExit(Tail(active_pairs), price, next)

TradePlan(code, current_price, current_bias, market_status, zone, target_pos_pct, suggested_orders, warnings, risk_triggered) ==
    [raised |-> FALSE, code |-> code, current_price |-> current_price,
     current_bias |-> current_bias, market_status |-> market_status,
     zone |-> zone, target_pos_pct |-> target_pos_pct,
     suggested_orders |-> suggested_orders, warnings |-> warnings,
     risk_triggered |-> risk_triggered]

\* An exception leaving analyze: no plan is returned.
Raised(code) ==
    [raised |-> TRUE, code |-> code, current_price |-> 0, current_bias |-> 0,
     market_status |-> "EXCEPTION", zone |-> "NONE", target_pos_pct |-> 0,
     suggested_orders |-> <<>>, warnings |-> <<>>, risk_triggered |-> FALSE]

\* lot_amount (line 370), anchor_price # 0, in shares
LotAmount(anchor_price) ==
    Max(round_to_lot((CAPITAL_PER_ETF * 5) \div anchor_price), LOT_SIZE)

\* Mutant: the deep-dip buys do not consult the circuit breaker.
DeepDipBuyAllowed_IgnoresRisk(risk_triggered, rsi) == ~(rsi > 75)

\* Mutant: the deep-dip buys do not consult RSI.
DeepDipBuyAllowed_IgnoresRsi(risk_triggered, rsi) == ~risk_triggered

\* Guard of the two deep-dip buys (lines 374-381)
DeepDipBuyAllowed(risk_triggered, rsi) == ~risk_triggered /\ ~(rsi > 75)

\* Mutant: the grid buy does not consult the circuit breaker.
GridBuyAllowed_IgnoresRisk(risk_triggered, is_uptrend, rsi) ==
    ~is_uptrend /\ rsi < 75

\* Mutant: the grid buy does not consult the trend lock.
GridBuyAllowed_IgnoresTrend(risk_triggered, is_uptrend, rsi) ==
    ~risk_triggered /\ rsi < 75

\* Guard of the grid buy (lines 397-398)
GridBuyAllowed(risk_triggered, is_uptrend, rsi) ==
    ~risk_triggered /\ ~is_uptrend /\ rsi < 75

\* Mutant: the grid sells do not consult the trend lock.
GridSellAllowed_IgnoresTrend(current_avail, is_downtrend) == current_avail > 0

\* Guard of the grid sells (lines 390, 401)
GridSellAllowed(current_avail, is_downtrend) == current_avail > 0 /\ ~is_downtrend

\* 4. Grid generation (lines 365-404), reached with the orders and warnings
\* collected so far.  lot_value / anchor_price with anchor_price = 0 yields
\* inf (numpy) or ZeroDivisionError (float), and int() of the rounded inf
\* raises: no plan leaves this stage with a zero anchor.
GridStage(code, price, bias, market_status, zone, target_pos_pct, atr, rsi, anchor_price, orders, warnings, risk_triggered, current_avail, is_uptrend, is_downtrend) ==
    IF anchor_price = 0 THEN Raised(code)
    ELSE
    LET step_price == calc_dynamic_step(atr, anchor_price, zone)
        lot_amount == LotAmount(anchor_price)
        anchor == anchor_price * PriceScale
        grid ==
            IF zone = "DEEP_DIP"
            THEN IF DeepDipBuyAllowed(risk_triggered, rsi)
                 THEN << TradeOrder("BUY", anchor - step_price, (lot_amount * 3) \div 2,
                                    "LIMIT", "deep_dip_buy1", 0),
                         TradeOrder("BUY", anchor - 2 * step_price, (lot_amount * 3) \div 2,
                                    "LIMIT", "deep_dip_buy2", 0) >>
                 ELSE <<>>
            ELSE IF zone \in {"REDUCE_ZONE", "ESCAPE_ZONE", "ESCAPE_HIGH"}
            THEN IF GridSellAllowed(current_avail, is_downtrend)
                 THEN << TradeOrder("SELL", anchor + step_price,
                                    Min(current_avail, (lot_amount * 3) \div 2),
                                    "LIMIT", "reduce_sell1", 0) >>
                 ELSE <<>>
            ELSE (IF GridBuyAllowed(risk_triggered, is_uptrend, rsi)
                  THEN << TradeOrder("BUY", anchor - step_price, lot_amount,
                                     "LIMIT", "grid_buy1", 0) >>
                  ELSE <<>>)
                 \o
                 (IF GridSellAllowed(current_avail, is_downtrend)
                  THEN << TradeOrder("SELL", anchor + step_price,
                                     Min(current_avail, lot_amount),
                                     "LIMIT", "grid_sell1", 0) >>
                  ELSE <<>>)
    IN TradePlan(code, price, bias, market_status, zone, target_pos_pct,
                 orders \o grid, warnings, risk_triggered)

\* Mutant: the rebalance does not consult the circuit breaker.
RebalanceFires_IgnoresRisk(deviation, risk_triggered, zone) ==
    /\ deviation > REBALANCE_THRESHOLD * CAPITAL_PER_ETF
    /\ zone \in {"DEEP_DIP", "GOLD_ZONE"}

\* Mutant: the rebalance is limited to the deep dip.
RebalanceFires_DeepDipOnly(deviation, risk_triggered, zone) ==
    /\ deviation > REBALANCE_THRESHOLD * CAPITAL_PER_ETF
    /\ ~risk_triggered
    /\ zone = "DEEP_DIP"

\* Mutant: the rebalance fires in every zone.
RebalanceFires_AnyZone(deviation, risk_triggered, zone) ==
    /\ deviation > REBALANCE_THRESHOLD * CAPITAL_PER_ETF
    /\ ~risk_triggered

\* Rebalance condition (line 347); deviation = pos_deviation * 100 * total_assets
RebalanceFires(deviation, risk_triggered, zone) ==
    /\ deviation > REBALANCE_THRESHOLD * CAPITAL_PER_ETF
    /\ ~risk_triggered
    /\ zone \in {"DEEP_DIP", "GOLD_ZONE"}

\* Rebalance (lines 334-363), then the grid stage.  buy_value / price with
\* price = 0 cannot be rounded to a lot: int() raises.
RebalanceStage(code, price, bias, market_status, zone, target_pos_pct, atr, rsi, anchor_price, orders, warnings, risk_triggered, current_vol, current_avail, is_uptrend, is_downtrend) ==
    LET total_assets == CAPITAL_PER_ETF
        \* pos_deviation * 100 * total_assets, price in cents
        deviation == target_pos_pct * total_assets - price * current_vol
        fires == RebalanceFires(deviation, risk_triggered, zone)
    IN IF fires /\ price = 0 THEN Raised(code)
       ELSE IF fires /\ round_to_lot(deviation \div (2 * price)) > 0
       THEN TradePlan(code, price, bias, market_status, zone, target_pos_pct,
                Append(orders, TradeOrder("BUY", price * PriceScale,
                                          round_to_lot(deviation \div (2 * price)),
                                          "MARKET", "rebalance", 0)),
                Append(warnings, Warning("rebalance", 0)), risk_triggered)
       ELSE GridStage(code, price, bias, market_status, zone, target_pos_pct, atr,
                      rsi, anchor_price, orders, warnings, risk_triggered,
                      current_avail, is_uptrend, is_downtrend)

\* analyze on the indicator frame (lines 172-404)
AnalyzeFrame(code, frame, current_holdings, pairs_tbl, ok) ==
    LET bias == frame.bias_20[4]
        prev_bias == frame.bias_20[3]
        price == frame.close
        atr == frame.atr_14
        rsi == frame.rsi_14
        kdj_j == frame.kdj_j
    IN
    IF IsNaN(bias) \/ IsNaN(atr)
    THEN TradePlan(code, price, 0, "INSUFFICIENT_INDICATORS", "NONE", 0, <<>>, <<>>, FALSE)
    ELSE
    LET cls == ClassifyZone(bias, prev_bias)
        zone == cls.zone
        w_rsi == IF rsi > SELL_THRESHOLD THEN <<Warning("rsi_overbought", 0)>> ELSE <<>>
        w_kdj == IF Lt(kdj_j, 10) /\ zone = "DEEP_DIP"
                 THEN <<Warning("kdj_oversold", 0)>> ELSE <<>>
        anchor_price == AnchorPrice(zone, price, frame.ma_5)
        current_vol == Get(current_holdings, "volume", 0)
        current_avail == Get(current_holdings, "available", 0)
        avg_cost == Get(current_holdings, "avg_cost", 0)
        drawdown == DrawdownTriggered(price, current_vol, avg_cost)
        w_dd == IF drawdown THEN <<Warning("drawdown", 0)>> ELSE <<>>
        trend == detect_trend(frame)
        is_uptrend == trend[1]
        is_downtrend == trend[2]
        w_up == IF is_uptrend THEN <<Warning("uptrend", 0)>> ELSE <<>>
        w_down == IF is_downtrend THEN <<Warning("downtrend", 0)>> ELSE <<>>
        escape_high == bias > ESCAPE_TOP_HIGH
        market_status == IF escape_high THEN "ESCAPE_HIGH" ELSE cls.market_status
        target_pos_pct == IF escape_high THEN 0 ELSE TARGET_POSITION(zone)
        recent_high == IF frame.len >= HIGH_WINDOW THEN frame.high20 ELSE NaN
        stop == TrailingStopCondition(recent_high, price, atr, current_vol)
        w_stop == IF stop THEN <<Warning("trailing_stop", 0)>> ELSE <<>>
        risk_triggered == drawdown \/ stop
        sell_vol == TrailingSellVolume(current_vol)
        warnings == w_rsi \o w_kdj \o w_dd \o w_up \o w_down \o w_stop
    IN
    IF stop /\ sell_vol > 0 /\ current_avail > 0
    THEN TradePlan(code, price, bias, market_status, zone, target_pos_pct,
                   << TradeOrder("SELL", price * PriceScale, Min(sell_vol, current_avail),
                                 "MARKET", "trailing_stop", 0) >>,
                   warnings, TRUE)
    ELSE
    LET active_pairs == get_active_pairs(pairs_tbl, ok, code)
        exits == PairExit(active_pairs, price,
                          [orders |-> <<>>, warnings |-> warnings, avail |-> current_avail])
    IN RebalanceStage(code, price, bias, market_status, zone, target_pos_pct, atr, rsi,
                      anchor_price, exits.orders, exits.warnings, risk_triggered,
                      current_vol, exits.avail, is_uptrend, is_downtrend)

\* GridStrategy.analyze (lines 159-404); df carries no indicator columns yet.
analyze(code, df, current_holdings, pairs_tbl, ok) ==
    LET frame == calculate_indicators(df)
    IN IF frame.len < MIN_ROWS
       THEN TradePlan(code, 0, 0, "INSUFFICIENT_DATA", "NONE", 0, <<>>,
                      <<Warning("insufficient_data", 0)>>, FALSE)
       ELSE AnalyzeFrame(code, frame, current_holdings, pairs_tbl, ok)

-----------------------------------------------------------------------------
(* monitor.py: GridMonitor.  pending_orders maps a code to the orders of   *)
(* its last plan; a code without an entry has no orders.                   *)

ETF_LIST == <<"sh510050", "sh588090">>
Codes == {ETF_LIST[i] : i \in DOMAIN ETF_LIST}

\* REAL_HOLDINGS.get(code, {'volume': 0, 'available': 0, 'avg_cost': 0})
REAL_HOLDINGS ==
    [c \in Codes |->
        IF c = "sh510050"
        THEN [volume |-> 6400, avg_cost |-> 310, available |-> 6400]
        ELSE [volume |-> 18000, avg_cost |-> 111, available |-> 18000]]

\* Mutant: no try/except around one code: the first failure ends the batch.
RECURSIVE AnalyzeAllFrom_AbortsOnFailure(_, _, _, _, _)
AnalyzeAllFrom_AbortsOnFailure(i, hist, acc, pairs_tbl, ok) ==
    IF i > Len(ETF_LIST) THEN acc
    ELSE LET code == ETF_LIST[i]
             plan == analyze(code, hist[code], REAL_HOLDINGS[code], pairs_tbl, ok)
         IN IF hist[code].len < 0 \/ (hist[code].len > 0 /\ plan.raised) THEN acc
            ELSE IF hist[code].len = 0
            THEN AnalyzeAllFrom_AbortsOnFailure(i + 1, hist, acc, pairs_tbl, ok)
            ELSE AnalyzeAllFrom_AbortsOnFailure(i + 1, hist,
                    [plans |-> Append(acc.plans, plan),
                     pending |-> [acc.pending EXCEPT ![code] = plan.suggested_orders]],
                    pairs_tbl, ok)

\* analyze_all from the i-th code on: a code whose history is empty is
\* skipped, a code whose fetch (len < 0) or analysis raises keeps its former
\* pending orders.
RECURSIVE AnalyzeAllFrom(_, _, _, _, _)
AnalyzeAllFrom(i, hist, acc, pairs_tbl, ok) ==
    IF i > Len(ETF_LIST) THEN acc
    ELSE LET code == ETF_LIST[i]
             plan == analyze(code, hist[code], REAL_HOLDINGS[code], pairs_tbl, ok)
         IN IF hist[code].len <= 0 \/ plan.raised
            THEN AnalyzeAllFrom(i + 1, hist, acc, pairs_tbl, ok)
            ELSE AnalyzeAllFrom(i + 1, hist,
                    [plans |-> Append(acc.plans, plan),
                     pending |-> [acc.pending EXCEPT ![code] = plan.suggested_orders]],
                    pairs_tbl, ok)

analyze_all(hist, pending, pairs_tbl, ok) ==
    AnalyzeAllFrom(1, hist, [plans |-> <<>>, pending |-> pending], pairs_tbl, ok)

\* TRADE_CONFIG.MAX_ORDER_VALUE, in yuan
MAX_ORDER_VALUE == 10000

\* Mutant: the order value is not limited.
place_order_NoValueLimit(broker, price, volume) ==
    AUTO_TRADE_ENABLED /\ broker = "accepted"

\* Trader.place_order, lines 235-304: whether the order was placed.  The
\* connection state, the user's answer to the confirmation prompt
\* ("declined") and the broker's answer are one input.
place_order(broker, price, volume) ==
    /\ AUTO_TRADE_ENABLED
    /\ broker # "not_connected"
    /\ price * volume <= MAX_ORDER_VALUE * 100 * PriceScale
    /\ broker = "accepted"

\* abs(current_price - order.price) / order.price <= alert_pct, for the
\* positive order prices the monitored histories produce
WithinAlert(current_price, order_price) ==
    Abs(current_price - order_price) * 1000 <= PRICE_ALERT_PCT * order_price

\* What signal_alert / place_order are called for; ledger_ok records whether
\* sqlite answered during that call.
Level(date, code, order, ok) ==
    [date |-> date, code |-> code, direction |-> order.direction,
     price |-> order.price, ledger_ok |-> ok]

\* Mutant: the level is marked only when its order was placed.
RECURSIVE CheckOrders_MarksOnSuccess(_, _, _, _, _, _, _)
CheckOrders_MarksOnSuccess(orders, code, current_price, date, ok, broker, acc) ==
    IF orders = <<>> THEN acc
    ELSE LET order == Head(orders)
             fires ==
                /\ ~is_grid_triggered(acc.tbl, ok, date, code, order.price,
                                      order.direction)
                /\ Abs(current_price - order.price) * 1000
                      <= PRICE_ALERT_PCT * order.price
             level == [date |-> date, code |-> code, direction |-> order.direction,
                       price |-> order.price, ledger_ok |-> ok]
             success == place_order(broker, order.price, order.amount)
         IN CheckOrders_MarksOnSuccess(Tail(orders), code, current_price, date, ok,
                broker,
                IF ~fires THEN acc
                ELSE [tbl |-> IF success
                              THEN mark_grid_triggered(acc.tbl, ok, date, code,
                                                       order.price, order.direction)
                              ELSE acc.tbl,
                      triggered |-> Append(acc.triggered,
                                       [code |-> code, direction |-> order.direction,
                                        current_price |-> current_price,
                                        target_price |-> order.price]),
                      signals |-> acc.signals (+) SetToBag({level}),
                      submitted |-> acc.submitted (+) SetToBag({level}),
                      results |-> acc.results (+)
                          SetToBag({[level |-> level, volume |-> order.amount,
                                     success |-> success]})])

\* The OrderResult of one place_order call of check_triggers
OrderResult(level, volume, success) ==
    [level |-> level, volume |-> volume, success |-> success]

\* The body of the loop over the pending orders of one code (lines 114-155);
\* acc = [tbl, triggered, signals, submitted, results]
RECURSIVE CheckOrders(_, _, _, _, _, _, _)
CheckOrders(orders, code, current_price, date, ok, broker, acc) ==
    IF orders = <<>> THEN acc
    ELSE LET order == Head(orders)
             fires ==
                /\ ~is_grid_triggered(acc.tbl, ok, date, code, order.price,
                                      order.direction)
                /\ WithinAlert(current_price, order.price)
             lvl == SetToBag({Level(date, code, order, ok)})
             result == OrderResult(Level(date, code, order, ok), order.amount,
                                   place_order(broker, order.price, order.amount))
         IN CheckOrders(Tail(orders), code, current_price, date, ok, broker,
                IF ~fires THEN acc
                ELSE [tbl |-> mark_grid_triggered(acc.tbl, ok, date, code,
                                                  order.price, order.direction),
                      triggered |-> Append(acc.triggered,
                                       [code |-> code, direction |-> order.direction,
                                        current_price |-> current_price,
                                        target_price |-> order.price]),
                      signals |-> acc.signals (+) lvl,
                      submitted |-> IF AUTO_TRADE_ENABLED
                                    THEN acc.submitted (+) lvl
                                    ELSE acc.submitted,
                      results |-> IF AUTO_TRADE_ENABLED
                                  THEN acc.results (+) SetToBag({result})
                                  ELSE acc.results])

\* The loop over pending_orders.items() (lines 103-111): codes without a
\* quote, or with a price <= 0, are skipped.
RECURSIVE CheckCodesFrom(_, _, _, _, _, _, _)
CheckCodesFrom(i, pending, realtime_data, date, ok, broker, acc) ==
    IF i > Len(ETF_LIST) THEN acc
    ELSE LET code == ETF_LIST[i]
         IN CheckCodesFrom(i + 1, pending, realtime_data, date, ok, broker,
                IF code \notin DOMAIN realtime_data \/ realtime_data[code] <= 0
                THEN acc
                ELSE CheckOrders(pending[code], code, realtime_data[code],
                                 date, ok, broker, acc))

check_triggers(pending, realtime_data, date, tbl, ok, broker, sig, sub, res) ==
    CheckCodesFrom(1, pending, realtime_data, date, ok, broker,
                   [tbl |-> tbl, triggered |-> <<>>, signals |-> sig,
                    submitted |-> sub, results |-> res])

-----------------------------------------------------------------------------
(* web_server.py: MonitorState.update and the /api/trade handler;          *)
(* trader.py: Trader.place_order.  Request prices are in order-price       *)
(* units, volumes in shares.                                               *)

\* dict[k] = v
Put(dict, k, v) == [x \in DOMAIN dict \cup {k} |-> IF x = k THEN v ELSE dict[x]]

\* One pass of the loop of MonitorState.update (lines 74-132): the history of
\* `code` is fetched and analysed, etf_data[code] and plans[code] are stored.
\* A fetch that raises (len < 0), an empty history and an analysis that raises
\* leave both entries as they were.
RECURSIVE UpdateFrom(_, _, _, _, _)
UpdateFrom(i, hist, st, pairs_tbl, ok) ==
    IF i > Len(ETF_LIST) THEN st
    ELSE LET code == ETF_LIST[i]
             frame == calculate_indicators(hist[code])
             plan == analyze(code, hist[code], REAL_HOLDINGS[code], pairs_tbl, ok)
         IN IF hist[code].len <= 0 \/ plan.raised
            THEN UpdateFrom(i + 1, hist, st, pairs_tbl, ok)
            ELSE UpdateFrom(i + 1, hist,
                    [etf_data |-> Put(st.etf_data, code,
                                      [price |-> frame.close, atr |-> frame.atr_14,
                                       status |-> plan.market_status,
                                       orders |-> plan.suggested_orders]),
                     plans |-> Put(st.plans, code, plan)],
                    pairs_tbl, ok)

update(hist, st, pairs_tbl, ok) == UpdateFrom(1, hist, st, pairs_tbl, ok)

\* realized_pnl of a SELL (lines 262-272), in order-price units x shares
RealizedPnl(code, direction, price, volume) ==
    IF direction = "SELL" /\ code \in DOMAIN REAL_HOLDINGS
                          /\ REAL_HOLDINGS[code].avg_cost > 0
    THEN (price - REAL_HOLDINGS[code].avg_cost * PriceScale) * volume
    ELSE 0

\* target_sell_price of a new pair (lines 280-286): price + 2 x cached ATR,
\* or 3% above the price when no positive ATR is cached
TargetSellPrice(etf_data, code, price) ==
    IF code \in DOMAIN etf_data /\ Gt(etf_data[code].atr, 0)
    THEN price + 2 * etf_data[code].atr * PriceScale
    ELSE (price * 103) \div 100

\* The first active pair a SELL at `price` settles (lines 292-297), 0 if none
RECURSIVE MatchedPair(_, _)
MatchedPair(active_pairs, price) ==
    IF active_pairs = <<>> THEN 0
    ELSE IF price * 100 >= Head(active_pairs).target_sell_price * 99
         THEN Head(active_pairs).id
         ELSE MatchedPair(Tail(active_pairs), price)

\* api_trade (lines 228-310); req = [code, direction, price, volume, broker]
api_trade(req, date, pairs_tbl, trades_tbl, ok, etf_data) ==
    IF req.code = "" \/ req.direction = "" \/ req.price <= 0 \/ req.volume <= 0
       \/ req.direction \notin {"BUY", "SELL"}
    THEN [status |-> 400, success |-> FALSE, grid_pairs |-> pairs_tbl,
          trade_history |-> trades_tbl]
    ELSE IF req.broker \in {"no_trader", "connect_failed"}
         \/ ~place_order(req.broker, req.price, req.volume)
    THEN [status |-> 200, success |-> FALSE, grid_pairs |-> pairs_tbl,
          trade_history |-> trades_tbl]
    ELSE [status |-> 200, success |-> TRUE,
          trade_history |->
              add_trade_record(trades_tbl, ok, date, req.code, req.direction, req.price,
                               req.volume,
                               RealizedPnl(req.code, req.direction, req.price,
                                           req.volume)),
          grid_pairs |->
              IF req.direction = "BUY"
              THEN add_grid_pair(pairs_tbl, ok, req.code, req.price, req.volume,
                                 TargetSellPrice(etf_data, req.code, req.price))
              ELSE LET id == MatchedPair(get_active_pairs(pairs_tbl, ok, req.code),
                                         req.price)
                   IN IF id = 0 THEN pairs_tbl ELSE close_pair(pairs_tbl, ok, id)]

-----------------------------------------------------------------------------
(* Inputs *)

\* Length of a series long enough for every window and the trend lookback.
FullLen == 30

DataFrame(len, close, ma5, atr, high20, rsi, kdj, bias) ==
    [len |-> len, close |-> close, ma5 |-> ma5, atr |-> atr, high20 |-> high20,
     rsi |-> rsi, kdj |-> kdj, bias |-> bias]

\* bias_20 of the last four rows from the latest value and the three daily changes
BiasSeries(cur, d) == <<cur - d[1] - d[2] - d[3], cur - d[2] - d[3], cur - d[3], cur>>

Biases == {-601, -476, 0, 600, 1300, 1501}
DailyChanges == {<<0, 0, 0>>, <<201, 201, 201>>, <<-201, -201, -201>>, <<0, 0, -800>>}
Prices == {0, 150, 1000, 10000}
Ma5Offsets == {-10, 0, 10}
Atrs == {2, 20, 40}
\* recent high = close + 3 * atr + r
Retracements == {0, 1}
Oscillators == {<<50, 50>>, <<50, 5>>, <<75, 50>>, <<76, 50>>}

\* <<close, ma5>> of the latest row; a moving average of prices is not negative
Quotes == {q \in {<<p, p + m>> : p \in Prices, m \in Ma5Offsets} : q[2] >= 0}

FullFrames ==
    {DataFrame(FullLen, q[1], q[2], a, q[1] + 3 * a + r, o[1], o[2], BiasSeries(b, d)) :
        q \in Quotes, a \in Atrs, r \in Retracements, o \in Oscillators,
        b \in Biases, d \in DailyChanges}

\* Series too short for one of the windows, or just long enough for bias_20
ShortLens == {0, 4, 5, 13, 14, 19, 20, 21, 22, 23}
ShortFrames ==
    {DataFrame(n, 1000, 1010, 20, 1000 + 3 * 20 + r, 50, 50, BiasSeries(b, d)) :
        n \in ShortLens, r \in Retracements, b \in {-601, 0},
        d \in {<<201, 201, 201>>, <<0, 0, -800>>}}

\* Both sides of every threshold of the zone partition
BoundaryBiases ==
    {DEEP_DIP - 1, DEEP_DIP, GOLD_ZONE_UPPER - 1, GOLD_ZONE_UPPER,
     TREND_REVERSAL, TREND_REVERSAL + 1,
     OSCILLATION_UPPER - 1, OSCILLATION_UPPER, REDUCE_ZONE_UPPER - 1,
     REDUCE_ZONE_UPPER, ESCAPE_TOP_HIGH, ESCAPE_TOP_HIGH + 1}
BoundaryFrames ==
    {DataFrame(FullLen, 1000, 1010, 20, 1000, 50, 50, <<pb, pb, pb, b>>) :
        b \in BoundaryBiases, pb \in BoundaryBiases}

DataFrames == FullFrames \cup ShortFrames \cup BoundaryFrames

Holding(volume, available, avg_cost) ==
    [volume |-> volume, available |-> available, avg_cost |-> avg_cost]

NoHolding == [k \in {} |-> 0]

Holdings ==
    {NoHolding} \cup
    {Holding(v[1], v[2], c) :
        v \in {<<100, 0>>, <<100, 50>>, <<200, 200>>, <<1000, 0>>, <<1000, 150>>,
              <<1000, 1000>>},
        c \in {0, 100, 1400}}
    \cup {Holding(3000, 1100, 1000), Holding(100, 100, 1000)}

\* Ledgers an analyze call may find: built by add_grid_pair / close_pair
PairTable1 == add_grid_pair(<<>>, TRUE, "sh510050", 1000000, 100, 1005000)
PairTable2 == add_grid_pair(PairTable1, TRUE, "sh510050", 990000, 1000, 1004000)
PairTable3 ==
    close_pair(add_grid_pair(add_grid_pair(PairTable1, TRUE, "sh588090", 100000, 100, 103000),
                             TRUE, "sh510050", 140000, 50, 150000),
               TRUE, 1)
PairTables == {<<>>, PairTable1, PairTable2, PairTable3}

-----------------------------------------------------------------------------
(* analyze as a function of its inputs: the inputs are drawn initially,    *)
(* one step applies analyze to them.                                       *)

NoSignals == EmptyBag

\* The processes that share the sqlite file
Procs == {1, 2}
Conn(pc, key, rows, outcome) == [pc |-> pc, key |-> key, rows |-> rows, outcome |-> outcome]
\* No mark_grid_triggered call is running.
NoConns == [p \in Procs |-> Conn("idle", <<>>, EmptyBag, "none")]

\* MonitorState.__init__: etf_data = {}, plans = {}
NoState == [etf_data |-> [k \in {} |-> 0], plans |-> [k \in {} |-> 0]]

Returned(op) == call.op = op /\ call.done

InitAnalyze ==
    /\ triggered_grids = EmptyBag
    /\ trade_history = <<>>
    /\ dbOk \in BOOLEAN
    /\ grid_pairs \in (IF dbOk THEN PairTables ELSE {PairTable2})
    /\ today = 1
    /\ pending_orders = [c \in Codes |-> <<>>]
    /\ call \in {[op |-> "analyze", done |-> FALSE, code |-> "sh510050",
                  df |-> df, holdings |-> h] : df \in DataFrames, h \in Holdings}
    /\ ret = <<>>
    /\ signals = NoSignals
    /\ submitted = NoSignals
    /\ state = NoState
    /\ conns = NoConns
    /\ db_lock = 0
    /\ order_results = NoSignals

AnalyzeStep ==
    /\ call.op = "analyze"
    /\ ~call.done
    /\ call' = [call EXCEPT !.done = TRUE]
    /\ ret' = analyze(call.code, call.df, call.holdings, grid_pairs, dbOk)
    /\ UNCHANGED <<triggered_grids, grid_pairs, trade_history, dbOk, today,
                   pending_orders, signals, submitted, state,
                   conns, db_lock, order_results>>

NextAnalyze == AnalyzeStep

SpecAnalyze == InitAnalyze /\ [][NextAnalyze]_vars

-----------------------------------------------------------------------------
(* The monitor: GridMonitor.run alternates analyze_all and check_triggers  *)
(* while the calendar advances and the sqlite file may become unusable.    *)

MaxDay == 2
MaxSignals == 2

EmptyFrame == DataFrame(0, 0, 0, 0, 0, 0, 0, <<0, 0, 0, 0>>)
\* A zero last close in a deep dip: the anchor is the price
ZeroCloseFrame == DataFrame(FullLen, 0, 0, 2, 6, 50, 50, <<-601, -601, -601, -601>>)
QuietFrame(code) ==
    IF code = "sh510050"
    THEN DataFrame(FullLen, 310, 312, 5, 320, 50, 50, <<0, 0, 0, 0>>)
    ELSE DataFrame(FullLen, 111, 112, 2, 114, 50, 50, <<0, 0, 0, 0>>)

Histories ==
    {[c \in Codes |-> IF c = "sh510050" THEN f ELSE g] :
        f \in {EmptyFrame, ZeroCloseFrame, QuietFrame("sh510050")},
        g \in {EmptyFrame, QuietFrame("sh588090")}}

\* Quotes of get_realtime_data, in order-price units; a code may be missing
RealtimePrices == {0, 306500, 310000}
RealtimeData ==
    {[c \in {"sh510050"} |-> p] : p \in RealtimePrices} \cup
    {[c \in Codes |-> IF c = "sh510050" THEN p ELSE 109600] : p \in RealtimePrices}

MonitorPairs == add_grid_pair(<<>>, TRUE, "sh510050", 305000, 100, 309000)

Init ==
    /\ triggered_grids = EmptyBag
    /\ grid_pairs \in {<<>>, MonitorPairs}
    /\ trade_history = <<>>
    /\ dbOk = TRUE
    /\ today = 1
    /\ pending_orders = [c \in Codes |-> <<>>]
    /\ call = [op |-> "init", done |-> TRUE]
    /\ ret = <<>>
    /\ signals = NoSignals
    /\ submitted = NoSignals
    /\ state = NoState
    /\ conns = NoConns
    /\ db_lock = 0
    /\ order_results = NoSignals

AnalyzeAll(hist) ==
    LET r == analyze_all(hist, pending_orders, grid_pairs, dbOk)
    IN /\ pending_orders' = r.pending
       /\ call' = [op |-> "analyze_all", done |-> TRUE, hist |-> hist]
       /\ ret' = r.plans
       /\ UNCHANGED <<triggered_grids, grid_pairs, trade_history, dbOk, today,
                      signals, submitted, state,
                   conns, db_lock, order_results>>

CheckTriggers(realtime_data, broker) ==
    LET r == check_triggers(pending_orders, realtime_data, today, triggered_grids,
                            dbOk, broker, signals, submitted, order_results)
    IN /\ BagCardinality(r.signals) <= MaxSignals
       /\ triggered_grids' = r.tbl
       /\ signals' = r.signals
       /\ submitted' = r.submitted
       /\ order_results' = r.results
       /\ call' = [op |-> "check_triggers", done |-> TRUE,
                   realtime_data |-> realtime_data, broker |-> broker]
       /\ ret' = r.triggered
       /\ UNCHANGED <<grid_pairs, trade_history, dbOk, today, pending_orders, state,
                      conns, db_lock>>

\* datetime.now() passes midnight
NextDay ==
    /\ today < MaxDay
    /\ today' = today + 1
    /\ call' = [op |-> "midnight", done |-> TRUE]
    /\ UNCHANGED <<triggered_grids, grid_pairs, trade_history, dbOk,
                   pending_orders, ret, signals, submitted, state,
                   conns, db_lock, order_results>>

\* sqlite3 starts raising (file locked, disk full, file removed)
StorageFails ==
    /\ dbOk
    /\ dbOk' = FALSE
    /\ call' = [op |-> "storage_fails", done |-> TRUE]
    /\ UNCHANGED <<triggered_grids, grid_pairs, trade_history, today,
                   pending_orders, ret, signals, submitted, state,
                   conns, db_lock, order_results>>

StorageRecovers ==
    /\ ~dbOk
    /\ dbOk' = TRUE
    /\ call' = [op |-> "storage_recovers", done |-> TRUE]
    /\ UNCHANGED <<triggered_grids, grid_pairs, trade_history, today,
                   pending_orders, ret, signals, submitted, state,
                   conns, db_lock, order_results>>

Next ==
    \/ \E hist \in Histories : AnalyzeAll(hist)
    \* the trader accepts every order here; SpecTriggers lets it refuse
    \/ \E realtime_data \in RealtimeData : CheckTriggers(realtime_data, "accepted")
    \/ NextDay
    \/ StorageFails
    \/ StorageRecovers

Spec == Init /\ [][Next]_vars

-----------------------------------------------------------------------------
(* The trigger loop with a trader that may refuse: the monitor of one plan  *)
(* whose two pair exits are priced closer than the lookup tolerance.        *)

\* A second open pair whose exit is priced 0.00005 above the first one's and
\* is worth more than MAX_ORDER_VALUE (4000 x 3.10005)
MonitorPairs2 == add_grid_pair(MonitorPairs, TRUE, "sh510050", 306000, 4000, 310005)

\* The trader during one check_triggers call
MonitorBrokers == {"not_connected", "declined", "accepted"}

TriggerHistories ==
    {[c \in Codes |-> IF c = "sh510050" THEN QuietFrame(c) ELSE g] :
        g \in {EmptyFrame, QuietFrame("sh588090")}}
TriggerQuotes == {[c \in {"sh510050"} |-> p] : p \in {306500, 310000}}

InitTriggers ==
    /\ triggered_grids = EmptyBag
    /\ grid_pairs = MonitorPairs2
    /\ trade_history = <<>>
    /\ dbOk = TRUE
    /\ today = 1
    /\ pending_orders = [c \in Codes |-> <<>>]
    /\ call = [op |-> "init", done |-> TRUE]
    /\ ret = <<>>
    /\ signals = NoSignals
    /\ submitted = NoSignals
    /\ state = NoState
    /\ conns = NoConns
    /\ db_lock = 0
    /\ order_results = NoSignals

NextTriggers ==
    \/ \E hist \in TriggerHistories : AnalyzeAll(hist)
    \/ \E realtime_data \in TriggerQuotes, broker \in MonitorBrokers :
          CheckTriggers(realtime_data, broker)
    \/ NextDay
    \/ StorageFails
    \/ StorageRecovers

SpecTriggers == InitTriggers /\ [][NextTriggers]_vars

-----------------------------------------------------------------------------
(* The ledger as its callers drive it: the web trade handler and the       *)
(* monitor write to it, analyze reads the open pairs.                      *)

MaxTriggers == 2
MaxPairs == 2
MaxTrades == 1

\* Trigger keys (date, code, price, direction); two of the prices are closer
\* than the lookup tolerance
TriggerKeys ==
    {<<1, "sh510050", 306000, "BUY">>, <<1, "sh510050", 306005, "BUY">>,
     <<1, "sh510050", 306000, "SELL">>, <<1, "sh588090", 306000, "BUY">>,
     <<2, "sh510050", 306000, "BUY">>}
PairBuyPrice == 305 * PriceScale
PairAmount == LOT_SIZE
PairTarget == 309 * PriceScale
TradePrice == 310 * PriceScale
TradePnl == 5 * LOT_SIZE

InitLedger ==
    /\ triggered_grids = EmptyBag
    /\ grid_pairs = <<>>
    /\ trade_history = <<>>
    /\ dbOk = TRUE
    /\ today = 1
    /\ pending_orders = [c \in Codes |-> <<>>]
    /\ call = [op |-> "init", done |-> TRUE]
    /\ ret = <<>>
    /\ signals = NoSignals
    /\ submitted = NoSignals
    /\ state = NoState
    /\ conns = NoConns
    /\ db_lock = 0
    /\ order_results = NoSignals

MarkGridTriggered(date, code, price, direction) ==
    LET repeated == \E row \in BagToSet(triggered_grids) :
                        SamePrimaryKey(row, date, code, price, direction)
    IN /\ repeated \/ BagCardinality(triggered_grids) < MaxTriggers
       /\ triggered_grids' = mark_grid_triggered(triggered_grids, dbOk, date, code,
                                                 price, direction)
       /\ call' = [op |-> "mark_grid_triggered", done |-> TRUE, date |-> date,
                   code |-> code, price |-> price, direction |-> direction,
                   repeated |-> repeated]
       /\ ret' = <<>>
       /\ UNCHANGED <<grid_pairs, trade_history, dbOk, today, pending_orders,
                      signals, submitted, state,
                   conns, db_lock, order_results>>

IsGridTriggered(date, code, price, direction) ==
    /\ call' = [op |-> "is_grid_triggered", done |-> TRUE, date |-> date,
                code |-> code, price |-> price, direction |-> direction]
    /\ ret' = is_grid_triggered(triggered_grids, dbOk, date, code, price, direction)
    /\ UNCHANGED <<triggered_grids, grid_pairs, trade_history, dbOk, today,
                   pending_orders, signals, submitted, state,
                   conns, db_lock, order_results>>

AddGridPair(code) ==
    /\ Len(grid_pairs) < MaxPairs
    /\ grid_pairs' = add_grid_pair(grid_pairs, dbOk, code, PairBuyPrice, PairAmount,
                                   PairTarget)
    /\ call' = [op |-> "add_grid_pair", done |-> TRUE, code |-> code,
                buy_price |-> PairBuyPrice, buy_amount |-> PairAmount,
                target_sell_price |-> PairTarget]
    /\ ret' = <<>>
    /\ UNCHANGED <<triggered_grids, trade_history, dbOk, today, pending_orders,
                   signals, submitted, state,
                   conns, db_lock, order_results>>

GetActivePairs(code) ==
    /\ call' = [op |-> "get_active_pairs", done |-> TRUE, code |-> code]
    /\ ret' = get_active_pairs(grid_pairs, dbOk, code)
    /\ UNCHANGED <<triggered_grids, grid_pairs, trade_history, dbOk, today,
                   pending_orders, signals, submitted, state,
                   conns, db_lock, order_results>>

ClosePair(pair_id) ==
    /\ grid_pairs' = close_pair(grid_pairs, dbOk, pair_id)
    /\ call' = [op |-> "close_pair", done |-> TRUE, pair_id |-> pair_id]
    /\ ret' = <<>>
    /\ UNCHANGED <<triggered_grids, trade_history, dbOk, today, pending_orders,
                   signals, submitted, state,
                   conns, db_lock, order_results>>

AddTradeRecord(code, direction) ==
    /\ Len(trade_history) < MaxTrades
    /\ trade_history' = add_trade_record(trade_history, dbOk, today, code, direction,
                                         TradePrice, PairAmount, TradePnl)
    /\ call' = [op |-> "add_trade_record", done |-> TRUE, code |-> code,
                direction |-> direction]
    /\ ret' = <<>>
    /\ UNCHANGED <<triggered_grids, grid_pairs, dbOk, today, pending_orders,
                   signals, submitted, state,
                   conns, db_lock, order_results>>

GetRealizedPnl(start_date) ==
    /\ call' = [op |-> "get_realized_pnl", done |-> TRUE, start_date |-> start_date]
    /\ ret' = get_realized_pnl(trade_history, dbOk, start_date)
    /\ UNCHANGED <<triggered_grids, grid_pairs, trade_history, dbOk, today,
                   pending_orders, signals, submitted, state,
                   conns, db_lock, order_results>>

\* Mutant: analyze closes the pairs whose exit it proposes.
Analyze_ClosesProposedPairs(code) ==
    LET plan == analyze(code, QuietFrame(code), REAL_HOLDINGS[code], grid_pairs, dbOk)
        proposed == {plan.suggested_orders[i].pair : i \in DOMAIN plan.suggested_orders}
    IN /\ call' = [op |-> "analyze", done |-> TRUE, code |-> code,
                   df |-> QuietFrame(code), holdings |-> REAL_HOLDINGS[code]]
       /\ ret' = plan
       /\ grid_pairs' = [i \in DOMAIN grid_pairs |->
                            IF grid_pairs[i].id \in proposed
                            THEN [grid_pairs[i] EXCEPT !.status = "CLOSED"]
                            ELSE grid_pairs[i]]
       /\ UNCHANGED <<triggered_grids, trade_history, dbOk, today,
                      pending_orders, signals, submitted, state,
                      conns, db_lock, order_results>>

\* GridStrategy.analyze on the monitor's data, reading the ledger as it stands
Analyze(code) ==
    /\ call' = [op |-> "analyze", done |-> TRUE, code |-> code,
                df |-> QuietFrame(code), holdings |-> REAL_HOLDINGS[code]]
    /\ ret' = analyze(code, QuietFrame(code), REAL_HOLDINGS[code], grid_pairs, dbOk)
    /\ UNCHANGED <<triggered_grids, grid_pairs, trade_history, dbOk, today,
                   pending_orders, signals, submitted, state,
                   conns, db_lock, order_results>>

NextLedger ==
    \/ \E key \in TriggerKeys :
          \/ MarkGridTriggered(key[1], key[2], key[3], key[4])
          \/ IsGridTriggered(key[1], key[2], key[3], key[4])
    \/ \E code \in Codes :
          \/ AddGridPair(code)
          \/ GetActivePairs(code)
          \/ Analyze(code)
    \/ \E pair_id \in 1..MaxPairs : ClosePair(pair_id)
    \/ AddTradeRecord("sh510050", "SELL")
    \/ \E start_date \in 0..today : GetRealizedPnl(start_date)
    \/ StorageFails
    \/ StorageRecovers

SpecLedger == InitLedger /\ [][NextLedger]_vars

-----------------------------------------------------------------------------
(* The web server: MonitorState.update and /api/trade; and the batch        *)
(* evaluations MonitorState.update and GridMonitor.analyze_all.             *)

\* get_history raised for this code
FetchError == DataFrame(0 - 1, 0, 0, 0, 0, 0, 0, <<0, 0, 0, 0>>)

WebHistories ==
    {[c \in Codes |-> IF c = "sh510050" THEN f ELSE g] :
        f \in {FetchError, ZeroCloseFrame, QuietFrame("sh510050")},
        g \in {EmptyFrame, ZeroCloseFrame, QuietFrame("sh588090")}}

\* Requests of /api/trade: a listed and an unlisted code; <<price, volume>>
\* invalid, within MAX_ORDER_VALUE (1.00 x 7000, 3.10 x 100) and above it
TradeQuotes == {<<0, 100>>, <<100000, 7000>>, <<310000, 100>>, <<310000, 4000>>}
Brokers == {"connect_failed", "rejected", "accepted"}
\* Every request with a broker that accepts, one request for each refusal
TradeRequests ==
    {[code |-> c, direction |-> d, price |-> q[1], volume |-> q[2],
      broker |-> "accepted"] :
        c \in {"sh510050", "sz159915"}, d \in {"BUY", "SELL"}, q \in TradeQuotes}
    \cup
    {[code |-> "sh510050", direction |-> "BUY", price |-> 310000, volume |-> 100,
      broker |-> b] : b \in Brokers}

InitWeb ==
    /\ triggered_grids = EmptyBag
    /\ grid_pairs \in {<<>>, MonitorPairs}
    /\ trade_history = <<>>
    /\ dbOk = TRUE
    /\ today = 1
    /\ pending_orders = [c \in Codes |-> <<>>]
    /\ call = [op |-> "init", done |-> TRUE]
    /\ ret = <<>>
    /\ signals = NoSignals
    /\ submitted = NoSignals
    /\ state = NoState
    /\ conns = NoConns
    /\ db_lock = 0
    /\ order_results = NoSignals

Update(hist) ==
    /\ state' = update(hist, state, grid_pairs, dbOk)
    /\ call' = [op |-> "update", done |-> TRUE, hist |-> hist]
    /\ ret' = <<>>
    /\ UNCHANGED <<triggered_grids, grid_pairs, trade_history, dbOk, today,
                   pending_orders, signals, submitted, conns, db_lock, order_results>>

ApiTrade(req) ==
    LET r == api_trade(req, today, grid_pairs, trade_history, dbOk, state.etf_data)
    IN /\ Len(trade_history) < MaxTrades
       /\ grid_pairs' = r.grid_pairs
       /\ trade_history' = r.trade_history
       /\ call' = [op |-> "api_trade", done |-> TRUE, code |-> req.code,
                   direction |-> req.direction, price |-> req.price,
                   volume |-> req.volume, broker |-> req.broker]
       /\ ret' = [status |-> r.status, success |-> r.success]
       /\ UNCHANGED <<triggered_grids, dbOk, today, pending_orders, signals,
                      submitted, state,
                   conns, db_lock, order_results>>

NextWeb ==
    \/ \E hist \in WebHistories : Update(hist)
    \/ \E req \in TradeRequests : ApiTrade(req)
    \/ StorageFails
    \/ StorageRecovers

SpecWeb == InitWeb /\ [][NextWeb]_vars

\* The two batch evaluations over the instrument list, on the same ledger
NextBatch ==
    \/ \E hist \in WebHistories : Update(hist)
    \/ \E hist \in WebHistories : AnalyzeAll(hist)
    \/ StorageFails
    \/ StorageRecovers

SpecBatch == InitWeb /\ [][NextBatch]_vars

-----------------------------------------------------------------------------
(* Two processes inside mark_grid_triggered (persistence.py:84-96), each   *)
(* on its own connection to the same sqlite file.  The INSERT opens the    *)
(* connection's transaction and needs sqlite's write lock, which is held   *)
(* until the commit; a connection that finds the lock taken waits, and     *)
(* gets "database is locked" when its busy timeout expires.                *)

\* Mutant: no write lock.
CanWrite_NoLocking(lock, p) == TRUE

\* The connection of p may start writing.
CanWrite(lock, p) == lock \in {0, p}

InitConcurrent ==
    /\ triggered_grids \in
          {EmptyBag, SetToBag({TriggerRow(1, "sh510050", 306000, "BUY")})}
    /\ grid_pairs = <<>>
    /\ trade_history = <<>>
    /\ dbOk = TRUE
    /\ today = 1
    /\ pending_orders = [c \in Codes |-> <<>>]
    /\ call = [op |-> "init", done |-> TRUE]
    /\ ret = <<>>
    /\ signals = NoSignals
    /\ submitted = NoSignals
    /\ state = NoState
    /\ conns \in [Procs -> {Conn("start", k, EmptyBag, "none") : k \in TriggerKeys}]
    /\ db_lock = 0
    /\ order_results = NoSignals

\* cursor.execute('INSERT OR IGNORE ...') (line 90): the rows the statement
\* adds are pending in the transaction of p.
Insert(p) ==
    LET k == conns[p].key
    IN /\ conns[p].pc = "start"
       /\ CanWrite(db_lock, p)
       /\ db_lock' = p
       /\ conns' = [conns EXCEPT ![p] =
             Conn("inserted", k,
                  mark_grid_triggered(triggered_grids, dbOk, k[1], k[2], k[3], k[4])
                      (-) triggered_grids,
                  "none")]
       /\ UNCHANGED <<triggered_grids, grid_pairs, trade_history, dbOk, today,
                      pending_orders, call, ret, signals, submitted, state,
                      order_results>>

\* The busy timeout of p expires while another connection writes: execute
\* raises sqlite3.OperationalError, the except clause logs it (lines 95-96).
BusyTimeout(p) ==
    /\ conns[p].pc = "start"
    /\ ~CanWrite(db_lock, p)
    /\ conns' = [conns EXCEPT ![p] = Conn("done", conns[p].key, EmptyBag, "error_logged")]
    /\ UNCHANGED <<triggered_grids, grid_pairs, trade_history, dbOk, today,
                   pending_orders, call, ret, signals, submitted, state, db_lock,
                   order_results>>

\* conn.commit(); conn.close() (lines 92-93)
Commit(p) ==
    /\ conns[p].pc = "inserted"
    /\ triggered_grids' = triggered_grids (+) conns[p].rows
    /\ db_lock' = IF db_lock = p THEN 0 ELSE db_lock
    /\ conns' = [conns EXCEPT ![p] = Conn("done", conns[p].key, EmptyBag, "saved")]
    /\ UNCHANGED <<grid_pairs, trade_history, dbOk, today, pending_orders, call,
                   ret, signals, submitted, state, order_results>>

NextConcurrent ==
    \E p \in Procs : Insert(p) \/ BusyTimeout(p) \/ Commit(p)

SpecConcurrent == InitConcurrent /\ [][NextConcurrent]_vars

-----------------------------------------------------------------------------
(* Properties of analyze, stated on its inputs (call) and its result (ret) *)

Analyzed == Returned("analyze")
Planned == Analyzed /\ ~ret.raised

InVolume == Get(call.holdings, "volume", 0)
InAvailable == Get(call.holdings, "available", 0)
InAvgCost == Get(call.holdings, "avg_cost", 0)

\* The series is long enough for bias_20, atr_14 and the 20-period high.
WarmedUp == call.df.len >= 20

\* 20-period recent high minus price > 3 x atr14, and holding volume > 0
StopConditionHolds ==
    /\ WarmedUp
    /\ call.df.high20 - call.df.close > 3 * call.df.atr
    /\ InVolume > 0

OrderCount == Len(ret.suggested_orders)
OrdersWhere(P(_)) == {i \in DOMAIN ret.suggested_orders : P(ret.suggested_orders[i])}
IsBuy(o) == o.direction = "BUY"
IsSell(o) == o.direction = "SELL"
IsMarketSell(o) == o.direction = "SELL" /\ o.type = "MARKET"

OneMarketSellOnly ==
    /\ OrderCount = 1
    /\ IsMarketSell(ret.suggested_orders[1])

\* C1 (as claimed): whenever the trailing-stop condition holds, the plan has
\* risk_triggered and exactly one order, a MARKET SELL, for every available
\* quantity and every ledger content.
C1_AsClaimed ==
    (Analyzed /\ StopConditionHolds) => (ret.risk_triggered /\ OneMarketSellOnly)

\* C1 (amended): when the trailing-stop condition holds and the available
\* quantity is positive, analyze returns a plan with risk_triggered and exactly
\* one order, a MARKET SELL, whatever the ledger holds; when the available
\* quantity is zero, a plan that is returned has risk_triggered, no MARKET SELL
\* and no BUY.
C1_TrailingStopTerminal ==
    (Analyzed /\ StopConditionHolds) =>
        /\ InAvailable > 0 => (~ret.raised /\ ret.risk_triggered /\ OneMarketSellOnly)
        /\ (InAvailable = 0 /\ ~ret.raised) =>
              /\ ret.risk_triggered
              /\ OrdersWhere(IsMarketSell) = {}
              /\ OrdersWhere(IsBuy) = {}

\* The stop fired on a holding with open pairs within reach and shares to sell.
C1_Witness ==
    /\ Analyzed /\ StopConditionHolds
    /\ InAvailable > 0
    /\ dbOk /\ grid_pairs = PairTable2
    /\ call.df.close = 1000
    /\ OneMarketSellOnly

\* C2 (as claimed): every plan with risk_triggered holds at most one order.
C2_AsClaimed == (Planned /\ ret.risk_triggered) => OrderCount <= 1

\* C2 (amended): a plan with risk_triggered holds no BUY order; it holds at most
\* one order when the trailing stop emitted its MARKET SELL, while a plan flagged
\* by the drawdown circuit breaker alone may add pair-exit and grid SELLs.
C2_RiskPlansHoldNoBuy ==
    (Planned /\ ret.risk_triggered) =>
        /\ OrdersWhere(IsBuy) = {}
        /\ OrdersWhere(IsMarketSell) # {} => OrderCount = 1

\* The circuit breaker fired, the stop did not, and the plan holds two SELLs.
C2_Witness ==
    /\ Planned /\ ret.risk_triggered
    /\ ~StopConditionHolds
    /\ OrderCount >= 2
    /\ OrdersWhere(IsBuy) = {}

\* C3: every order amount is a non-negative multiple of LOT_SIZE.
C3_LotMultiples ==
    Planned => \A i \in DOMAIN ret.suggested_orders :
                  /\ ret.suggested_orders[i].amount >= 0
                  /\ ret.suggested_orders[i].amount % LOT_SIZE = 0

\* C7: analyze returns a plan and raises nothing, for every input.
C7_NeverRaises == Analyzed => ~ret.raised

\* C8 (as claimed): fewer rows than the 20-period warm-up give INSUFFICIENT_DATA
\* and no orders.
C8_AsClaimed ==
    (Analyzed /\ call.df.len < 20) =>
        /\ ~ret.raised
        /\ ret.market_status = "INSUFFICIENT_DATA"
        /\ ret.suggested_orders = <<>>

\* C8 (amended): fewer than 5 rows give INSUFFICIENT_DATA, 5 to 19 rows give
\* INSUFFICIENT_INDICATORS; in both cases the plan holds no orders.
C8_ShortSeriesSentinels ==
    (Analyzed /\ call.df.len < 20) =>
        /\ ~ret.raised
        /\ ret.suggested_orders = <<>>
        /\ call.df.len < 5 => ret.market_status = "INSUFFICIENT_DATA"
        /\ call.df.len >= 5 => ret.market_status = "INSUFFICIENT_INDICATORS"

\* A series of 19 rows was analysed.
C8_Witness ==
    /\ Analyzed
    /\ call.df.len = 19
    /\ ret.market_status = "INSUFFICIENT_INDICATORS"

InBias == call.df.bias[4]
InPrevBias == call.df.bias[3]

\* The mode switch: previous bias above TREND_REVERSAL, current at or below it,
\* and the current bias not in the deep dip.
OverrideApplies ==
    /\ call.df.len >= 21
    /\ InPrevBias > TREND_REVERSAL
    /\ InBias <= TREND_REVERSAL
    /\ ~(InBias < DEEP_DIP)

ZoneRank(zone) ==
    CASE zone = "DEEP_DIP" -> 1
      [] zone = "GOLD_ZONE" -> 2
      [] zone = "OSCILLATION" -> 3
      [] zone = "REDUCE_ZONE" -> 4
      [] zone = "ESCAPE_ZONE" -> 5

\* C10: without the override the zone follows the half-open intervals of bias
\* (lower bound included, upper bound excluded), and a lower bias never gets a
\* higher zone.
C10_ZoneIntervals ==
    (Planned /\ WarmedUp /\ ~OverrideApplies) =>
        /\ InBias < DEEP_DIP => ret.zone = "DEEP_DIP"
        /\ (DEEP_DIP <= InBias /\ InBias < GOLD_ZONE_UPPER) => ret.zone = "GOLD_ZONE"
        /\ (GOLD_ZONE_UPPER <= InBias /\ InBias < OSCILLATION_UPPER)
              => ret.zone = "OSCILLATION"
        /\ (OSCILLATION_UPPER <= InBias /\ InBias < REDUCE_ZONE_UPPER)
              => ret.zone = "REDUCE_ZONE"
        /\ REDUCE_ZONE_UPPER <= InBias => ret.zone = "ESCAPE_ZONE"
        /\ \A other \in Biases \cup BoundaryBiases :
              other <= InBias => ZoneRank(RawZone(other)) <= ZoneRank(ret.zone)

\* bias -4.76 was classified GOLD_ZONE.
C10_Witness ==
    /\ Planned /\ WarmedUp /\ ~OverrideApplies
    /\ InBias = -476
    /\ ret.zone = "GOLD_ZONE"

-----------------------------------------------------------------------------
(* Properties of the monitor's trigger loop *)

\* How often a level was signalled / submitted, with or without the ledger
TimesIn(bag, l) ==
    CopiesIn([l EXCEPT !.ledger_ok = TRUE], bag)
    + CopiesIn([l EXCEPT !.ledger_ok = FALSE], bag)

-----------------------------------------------------------------------------
(* Properties of the ledger *)

\* C5: marking the same (date, code, price, direction) again leaves exactly one
\* record for the key, and is_grid_triggered answers true for a marked key,
\* after the first mark and after a repeated one.
C5_MarkIdempotent ==
    /\ \A row \in BagToSet(triggered_grids) : CopiesIn(row, triggered_grids) = 1
    /\ (Returned("mark_grid_triggered") /\ dbOk) =>
          /\ CopiesIn(TriggerRow(call.date, call.code, call.price, call.direction),
                      triggered_grids) = 1
          /\ is_grid_triggered(triggered_grids, dbOk, call.date, call.code,
                               call.price, call.direction)
    /\ (Returned("is_grid_triggered") /\ dbOk
          /\ BagIn(TriggerRow(call.date, call.code, call.price, call.direction),
                   triggered_grids)) => ret = TRUE

\* A key was marked a second time.
C5_Witness ==
    /\ Returned("mark_grid_triggered")
    /\ dbOk
    /\ call.repeated
    /\ CopiesIn(TriggerRow(call.date, call.code, call.price, call.direction),
                triggered_grids) = 1

PairsExcept(pairs, pair_id) ==
    LET Other(row) == row.id # pair_id
    IN SelectSeq(pairs, Other)

C6_Step ==
    /\ (call'.op = "add_grid_pair" /\ dbOk) =>
          \E i \in DOMAIN get_active_pairs(grid_pairs', dbOk', call'.code) :
             LET row == get_active_pairs(grid_pairs', dbOk', call'.code)[i]
             IN /\ row.id = Len(grid_pairs) + 1
                /\ row.status = "OPEN"
                /\ row.code = call'.code
                /\ row.buy_price = call'.buy_price
                /\ row.buy_amount = call'.buy_amount
                /\ row.target_sell_price = call'.target_sell_price
    /\ (call'.op = "close_pair" /\ dbOk) =>
          \A c \in Codes :
             get_active_pairs(grid_pairs', dbOk', c)
                = PairsExcept(get_active_pairs(grid_pairs, dbOk, c), call'.pair_id)

\* C6: after add_grid_pair(code, ...) get_active_pairs(code) contains the new
\* pair with status OPEN; after close_pair(id) get_active_pairs no longer
\* contains that pair and still returns every other OPEN pair, in the same order.
C6_PairRoundTrip == [][C6_Step]_vars

\* An open pair was closed while another pair of its code stayed open.
C6_Witness ==
    /\ Returned("close_pair")
    /\ dbOk
    /\ \E i \in DOMAIN grid_pairs :
          /\ grid_pairs[i].id = call.pair_id
          /\ grid_pairs[i].status = "CLOSED"
          /\ get_active_pairs(grid_pairs, dbOk, grid_pairs[i].code) # <<>>

LedgerOps ==
    {"is_grid_triggered", "mark_grid_triggered", "add_grid_pair", "get_active_pairs",
     "close_pair", "add_trade_record", "get_realized_pnl", "analyze"}

C9_Step ==
    (~dbOk /\ call'.op \in LedgerOps) =>
        /\ UNCHANGED <<triggered_grids, grid_pairs, trade_history>>
        /\ call'.op = "is_grid_triggered" => ret' = FALSE
        /\ call'.op = "get_active_pairs" => ret' = <<>>
        /\ call'.op = "get_realized_pnl" => ret' = 0
        /\ call'.op = "analyze" =>
              /\ ~ret'.raised
              /\ ret' = analyze(call'.code, call'.df, call'.holdings, <<>>, TRUE)

\* C9: while the storage fails every ledger operation returns to its caller:
\* is_grid_triggered gives false, get_active_pairs the empty list,
\* get_realized_pnl 0, the writes leave the tables as they were, and analyze
\* returns the plan it computes when there are no open pairs.
C9_StorageFailureTolerated == [][C9_Step]_vars

\* analyze ran while the storage failed and the table held an open pair within
\* reach, which the plan leaves out.
C9_Witness ==
    /\ Returned("analyze")
    /\ ~dbOk
    /\ get_active_pairs(grid_pairs, TRUE, call.code) # <<>>
    /\ ret # analyze(call.code, call.df, call.holdings, grid_pairs, TRUE)
    /\ ret = analyze(call.code, call.df, call.holdings, <<>>, TRUE)

-----------------------------------------------------------------------------
(* Properties of the grid stage of analyze *)

\* The anchor analyze derives from its inputs (the series is warmed up).
InAnchor == AnchorPrice(ret.zone, call.df.close, call.df.ma5)

IsGridOrder(o) ==
    o.desc \in {"grid_buy1", "grid_sell1", "reduce_sell1", "deep_dip_buy1", "deep_dip_buy2"}
GridOrders == OrdersWhere(IsGridOrder)

\* Number of grid steps between the anchor and the order
StepsAway(o) == IF o.desc = "deep_dip_buy2" THEN 2 ELSE 1
\* Distance of the order's price from the anchor, in order-price units
AnchorDistance(o) == Abs(o.price - InAnchor * PriceScale)
\* reference x minProfitPct of the bucket of atr14 / reference
ProfitFloor(reference) ==
    reference * MinProfitPct(call.df.atr, reference) * (PriceScale \div 1000)

\* C11 (as claimed): every grid order lies at least (current price x
\* minProfitPct of the bucket of atr14 / current price) per step away from the
\* anchor, also when the anchor is ma5 and differs from the price.
C11_AsClaimed ==
    Planned => \A i \in GridOrders :
        AnchorDistance(ret.suggested_orders[i]) >=
            StepsAway(ret.suggested_orders[i]) * ProfitFloor(call.df.close)

\* C11 (amended): every grid order lies at least (anchor x minProfitPct of the
\* bucket of atr14 / anchor) per step away from the anchor; the anchor is the
\* current price in DEEP_DIP and ma5 elsewhere.
C11_StepFloorOnAnchor ==
    Planned => \A i \in GridOrders :
        AnchorDistance(ret.suggested_orders[i]) >=
            StepsAway(ret.suggested_orders[i]) * ProfitFloor(InAnchor)

\* A grid order was placed from an ma5 anchor below the price, the step being
\* the floor itself.
C11_Witness ==
    /\ Planned
    /\ InAnchor < call.df.close
    /\ \E i \in GridOrders :
          AnchorDistance(ret.suggested_orders[i]) = ProfitFloor(InAnchor)

-----------------------------------------------------------------------------
(* Properties of the rebalance stage of analyze *)

\* (target position - price x volume / capital per instrument) x 100 x capital
InDeviation == ret.target_pos_pct * CAPITAL_PER_ETF - call.df.close * InVolume

\* The rebalance condition holds in a call that returned a plan: deviation
\* above 0.15, risk not triggered (so the trailing stop did not fire), zone
\* DEEP_DIP or GOLD_ZONE.
RebalanceConditionHolds ==
    /\ Planned
    /\ InDeviation > REBALANCE_THRESHOLD * CAPITAL_PER_ETF
    /\ ~ret.risk_triggered
    /\ ret.zone \in {"DEEP_DIP", "GOLD_ZONE"}

\* Lot-rounded size of half the deviation, in shares (price # 0)
RebalanceAmount == round_to_lot(InDeviation \div (2 * call.df.close))

IsRebalanceBuy(o) ==
    /\ o.direction = "BUY" /\ o.type = "MARKET"
    /\ o.price = call.df.close * PriceScale
    /\ o.amount = RebalanceAmount
IsPairExit(o) == o.direction = "SELL" /\ o.type = "LIMIT" /\ o.desc = "pair_exit"
IsMarketOrder(o) == o.type = "MARKET"

\* C12 (as claimed): when the rebalance condition holds the plan is exactly
\* one order, the MARKET BUY of the lot-rounded half deviation, for every set
\* of open pairs and every price.
C12_AsClaimed ==
    RebalanceConditionHolds =>
        /\ call.df.close # 0
        /\ OrderCount = 1
        /\ IsRebalanceBuy(ret.suggested_orders[1])

\* C12 (amended): when the rebalance condition holds and the lot-rounded half
\* deviation is positive, the plan ends with the MARKET BUY of that size, holds
\* no grid order, and every order before the BUY is a pair-exit LIMIT SELL;
\* when the size rounds to zero the plan holds no MARKET order and consists of
\* pair exits and grid orders.
C12_RebalanceAfterPairExits ==
    RebalanceConditionHolds =>
        \* with a zero price the rebalance raises and no plan is returned
        /\ call.df.close # 0
        /\ RebalanceAmount > 0 =>
              /\ OrderCount >= 1
              /\ IsRebalanceBuy(ret.suggested_orders[OrderCount])
              /\ GridOrders = {}
              /\ \A i \in 1..(OrderCount - 1) : IsPairExit(ret.suggested_orders[i])
        /\ RebalanceAmount = 0 =>
              /\ OrdersWhere(IsMarketOrder) = {}
              /\ \A i \in DOMAIN ret.suggested_orders :
                    IsPairExit(ret.suggested_orders[i]) \/ i \in GridOrders

\* The rebalance fired behind the exit of an open pair.
C12_Witness ==
    /\ RebalanceConditionHolds
    /\ OrderCount = 2
    /\ IsPairExit(ret.suggested_orders[1])
    /\ IsRebalanceBuy(ret.suggested_orders[2])

\* The rebalance condition held and the size rounded to zero lots.
C12_ZeroLots ==
    /\ RebalanceConditionHolds
    /\ RebalanceAmount = 0
    /\ GridOrders # {}

-----------------------------------------------------------------------------
(* Properties of the trigger store *)

\* Two different records of one day, code and direction
SameLevelFamily(r1, r2) ==
    /\ r1 # r2
    /\ r1.date = r2.date
    /\ r1.code = r2.code
    /\ r1.direction = r2.direction

\* C13 (as claimed): no two records of the same date, code and direction have
\* prices closer than the tolerance of is_grid_triggered.
C13_AsClaimed ==
    \A r1, r2 \in BagToSet(triggered_grids) :
        SameLevelFamily(r1, r2) => Abs(r1.price - r2.price) >= PRICE_TOLERANCE

\* C13 (amended): records are unique on the exact (date, code, price,
\* direction): no record is stored twice, and a mark made while the storage
\* works leaves a record with exactly the marked price, also when a record
\* within the lookup tolerance of that price was already stored.
C13_UniqueOnExactPrice ==
    /\ \A r1, r2 \in BagToSet(triggered_grids) :
          /\ CopiesIn(r1, triggered_grids) = 1
          /\ SameLevelFamily(r1, r2) => r1.price # r2.price
    /\ (Returned("mark_grid_triggered") /\ dbOk) =>
          BagIn(TriggerRow(call.date, call.code, call.price, call.direction),
                triggered_grids)

\* A level was marked 0.00005 away from a recorded one: both records are kept.
C13_Witness ==
    /\ Returned("mark_grid_triggered") /\ dbOk /\ ~call.repeated
    /\ \E row \in BagToSet(triggered_grids) :
          /\ SameLevelFamily(row, TriggerRow(call.date, call.code, call.price,
                                             call.direction))
          /\ Abs(row.price - call.price) < PRICE_TOLERANCE

\* C14: a trigger mark is day-scoped.  Every record answers true for its own
\* date; no record is dated after today, so for every later date every
\* recorded level still answers false; and a level that check_triggers
\* signalled today with the ledger working is recorded under today's date.
C14_MarkIsDayScoped ==
    /\ \A row \in BagToSet(triggered_grids) :
          /\ row.date <= today
          /\ is_grid_triggered(triggered_grids, TRUE, row.date, row.code, row.price,
                               row.direction)
          /\ \A d \in (today + 1)..(MaxDay + 1) :
                ~is_grid_triggered(triggered_grids, TRUE, d, row.code, row.price,
                                   row.direction)
    /\ \A l \in BagToSet(signals) :
          l.ledger_ok =>
              BagIn(TriggerRow(l.date, l.code, l.price, l.direction), triggered_grids)

\* The level signalled on day 1 signalled once again on day 2, the ledger
\* working both times.
C14_Witness ==
    /\ today = 2
    /\ \E l \in BagToSet(signals) :
          /\ l.date = 1 /\ l.ledger_ok
          /\ BagIn([l EXCEPT !.date = 2], signals)
          /\ BagIn(TriggerRow(1, l.code, l.price, l.direction), triggered_grids)
          /\ BagIn(TriggerRow(2, l.code, l.price, l.direction), triggered_grids)

-----------------------------------------------------------------------------
(* Properties of the trade handler and of the batch evaluations *)

\* The available holding of an instrument, 0 when it is not held
AvailableOf(code) ==
    IF code \in DOMAIN REAL_HOLDINGS THEN REAL_HOLDINGS[code].available ELSE 0

\* C15 (as claimed): the buy_amount of every grid pair is at most the
\* available holding of its instrument.
C15_AsClaimed ==
    \A i \in DOMAIN grid_pairs :
        grid_pairs[i].buy_amount <= AvailableOf(grid_pairs[i].code)

C15_Step ==
    call'.op = "api_trade" =>
        IF ret'.success /\ call'.direction = "BUY" /\ dbOk
        THEN /\ Len(grid_pairs') = Len(grid_pairs) + 1
             /\ SubSeq(grid_pairs', 1, Len(grid_pairs)) = grid_pairs
             /\ grid_pairs'[Len(grid_pairs')].code = call'.code
             /\ grid_pairs'[Len(grid_pairs')].status = "OPEN"
             /\ grid_pairs'[Len(grid_pairs')].buy_price = call'.price
             /\ grid_pairs'[Len(grid_pairs')].buy_amount = call'.volume
             /\ call'.volume > 0
             /\ call'.price * call'.volume <= MAX_ORDER_VALUE * 100 * PriceScale
        ELSE Len(grid_pairs') = Len(grid_pairs)

\* C15 (amended): the trade handler creates a grid pair exactly on a
\* successful BUY recorded by a working store; the pair's buy_amount is the
\* volume of the request, which is positive and bounded by MAX_ORDER_VALUE /
\* price, not by the available holding.
C15_PairMirrorsBuy == [][C15_Step]_vars

\* A BUY of 7000 shares created a pair while 6400 shares are available.
C15_Witness ==
    /\ Returned("api_trade") /\ ret.success /\ dbOk
    /\ call.direction = "BUY"
    /\ call.code = "sh510050"
    /\ grid_pairs # <<>>
    /\ grid_pairs[Len(grid_pairs)].buy_amount = call.volume
    /\ call.volume > AvailableOf(call.code)

\* What analyze answers for one code of the batch
BatchPlan(code) ==
    analyze(code, call.hist[code], REAL_HOLDINGS[code], grid_pairs, dbOk)
Analysable(code) == call.hist[code].len > 0 /\ ~BatchPlan(code).raised
BatchFailure(code) ==
    call.hist[code].len < 0 \/ (call.hist[code].len > 0 /\ BatchPlan(code).raised)

\* C17: after analyze_all, and after MonitorState.update, every instrument
\* whose history was fetched and whose analysis did not raise has its plan
\* returned / stored, whatever happened to the other instruments.
C17_BatchSurvivesFailures ==
    /\ Returned("analyze_all") =>
          \A code \in Codes : Analysable(code) =>
              /\ \E i \in DOMAIN ret : ret[i] = BatchPlan(code)
              /\ pending_orders[code] = BatchPlan(code).suggested_orders
    /\ Returned("update") =>
          \A code \in Codes : Analysable(code) =>
              /\ code \in DOMAIN state.plans
              /\ state.plans[code] = BatchPlan(code)
              /\ code \in DOMAIN state.etf_data
              /\ state.etf_data[code].orders = BatchPlan(code).suggested_orders

\* The fetch of the first instrument failed and the second one was analysed.
C17_Witness ==
    /\ Returned("analyze_all")
    /\ BatchFailure("sh510050")
    /\ Analysable("sh588090")
    /\ Len(ret) = 1
    /\ ret[1].code = "sh588090"

\* The analysis of the second instrument raised and the plan of the first one
\* is stored by update.
C17_UpdateKeepsEarlierPlan ==
    /\ Returned("update")
    /\ Analysable("sh510050")
    /\ BatchFailure("sh588090")
    /\ DOMAIN state.plans = {"sh510050"}

-----------------------------------------------------------------------------
(* Properties of concurrent marks *)

AllDone == \A p \in Procs : conns[p].pc = "done"
SameKey == \A p, q \in Procs : conns[p].key = conns[q].key

\* C16: when two processes mark the same key concurrently, every call ends
\* in its own handler (saved, or the error logged: nothing is raised), the
\* store never holds a record twice, and once both calls are over exactly one
\* record exists for the key and is_grid_triggered answers true for it.
C16_ConcurrentMarksLeaveOneRecord ==
    /\ \A row \in BagToSet(triggered_grids) : CopiesIn(row, triggered_grids) = 1
    /\ \A p \in Procs :
          conns[p].pc = "done" => conns[p].outcome \in {"saved", "error_logged"}
    /\ (AllDone /\ SameKey) =>
          \A p \in Procs :
              LET k == conns[p].key
              IN /\ CopiesIn(TriggerRow(k[1], k[2], k[3], k[4]), triggered_grids) = 1
                 /\ is_grid_triggered(triggered_grids, dbOk, k[1], k[2], k[3], k[4])

\* Both processes marked the same new key; one of them found the database
\* locked, the other one saved the record.
C16_Witness ==
    /\ AllDone /\ SameKey
    /\ \E p, q \in Procs :
          /\ conns[p].outcome = "saved"
          /\ conns[q].outcome = "error_logged"
    /\ BagCardinality(triggered_grids) = 1

\* Both processes saved: the second INSERT was ignored.
C16_SecondInsertIgnored ==
    /\ AllDone /\ SameKey
    /\ \A p \in Procs : conns[p].outcome = "saved"
    /\ BagCardinality(triggered_grids) = 1

-----------------------------------------------------------------------------
(* Properties of the mode switch, the deep-dip grid and the circuit breaker *)

\* Previous bias above TREND_REVERSAL (and defined), current at or below it
CrossingHolds ==
    /\ call.df.len >= MA20_WINDOW + 1
    /\ InPrevBias > TREND_REVERSAL
    /\ InBias <= TREND_REVERSAL

\* C18: when the bias crosses down through TREND_REVERSAL and the raw zone is
\* not DEEP_DIP (GOLD_ZONE included), the zone is OSCILLATION with status
\* 'OSCILLATION (SWITCH)' and the OSCILLATION target; a raw DEEP_DIP is kept;
\* without the crossing the raw zone is kept.
C18_ModeSwitch ==
    (Planned /\ WarmedUp) =>
        IF CrossingHolds /\ RawZone(InBias) # "DEEP_DIP"
        THEN /\ ret.zone = "OSCILLATION"
             /\ ret.market_status = "OSCILLATION (SWITCH)"
             /\ ret.target_pos_pct = TARGET_POSITION("OSCILLATION")
        ELSE /\ ret.zone = RawZone(InBias)
             /\ ret.market_status \in {RawZone(InBias), "ESCAPE_HIGH"}
             /\ ret.market_status = "ESCAPE_HIGH" <=> InBias > ESCAPE_TOP_HIGH

\* The bias fell from 3.24 to -4.76: raw GOLD_ZONE, switched to OSCILLATION.
C18_Witness ==
    /\ Planned /\ WarmedUp /\ CrossingHolds
    /\ RawZone(InBias) = "GOLD_ZONE"
    /\ ret.zone = "OSCILLATION"
    /\ ret.market_status = "OSCILLATION (SWITCH)"

\* The bias fell from above TREND_REVERSAL into the deep dip: no switch.
C18_DeepDipKept ==
    /\ Planned /\ WarmedUp /\ CrossingHolds
    /\ ret.zone = "DEEP_DIP"

\* The plan is in the deep dip, no terminal rule emitted its MARKET order and
\* RSI does not exceed the overbought threshold.
DeepDipGridCase ==
    /\ Planned /\ WarmedUp
    /\ ret.zone = "DEEP_DIP"
    /\ OrdersWhere(IsMarketOrder) = {}
    /\ ~(call.df.rsi > SELL_THRESHOLD)

\* The two deep-dip buys: LIMIT BUYs one and two steps below the anchor, each
\* of int(1.5 x base lot) shares, and no other BUY
TwoDeepDipBuys ==
    LET buys == OrdersWhere(IsBuy)
        anchor == InAnchor * PriceScale
        step == calc_dynamic_step(call.df.atr, InAnchor, "DEEP_DIP")
        IsDeepDipBuy(o, steps) ==
            /\ o.type = "LIMIT"
            /\ o.price = anchor - steps * step
            /\ o.amount = (LotAmount(InAnchor) * 3) \div 2
    IN /\ Cardinality(buys) = 2
       /\ \E i, j \in buys :
             /\ i < j
             /\ IsDeepDipBuy(ret.suggested_orders[i], 1)
             /\ IsDeepDipBuy(ret.suggested_orders[j], 2)

\* C19 (as claimed): in the deep-dip grid case the plan holds the two deep-dip
\* buys, whatever risk_triggered is.
C19_AsClaimed == DeepDipGridCase => TwoDeepDipBuys

\* C19 (amended): in the deep-dip grid case the plan holds the two deep-dip
\* buys when risk_triggered is false, and no BUY when it is true.
C19_DeepDipBuysUnlessRisk ==
    DeepDipGridCase =>
        IF ret.risk_triggered THEN OrdersWhere(IsBuy) = {} ELSE TwoDeepDipBuys

\* The two deep-dip buys were placed under an open pair's exit.
C19_Witness ==
    /\ DeepDipGridCase
    /\ ~ret.risk_triggered
    /\ TwoDeepDipBuys
    /\ OrderCount = 3

\* (price - avg_cost) / avg_cost < MAX_DRAWDOWN_LIMIT on a holding
DrawdownFires ==
    /\ InVolume > 0
    /\ InAvgCost > 0
    /\ (call.df.close - InAvgCost) * 100 < MAX_DRAWDOWN_LIMIT * InAvgCost

\* C20: whenever the drawdown circuit breaker fires, the plan has
\* risk_triggered and holds no BUY order, in every zone.
C20_DrawdownBlocksBuys ==
    (Planned /\ WarmedUp /\ DrawdownFires) =>
        /\ ret.risk_triggered
        /\ OrdersWhere(IsBuy) = {}

\* The breaker fired in the deep dip, far below the target position, and the
\* trailing stop did not hold.
C20_Witness ==
    /\ Planned /\ WarmedUp /\ DrawdownFires
    /\ ~StopConditionHolds
    /\ ret.zone = "DEEP_DIP"
    /\ InDeviation > REBALANCE_THRESHOLD * CAPITAL_PER_ETF
    /\ ret.risk_triggered
    /\ OrdersWhere(IsBuy) = {}

-----------------------------------------------------------------------------
(* Properties of the trend lock and the RSI lock *)

\* _detect_trend reports an uptrend: each of the last LOOKBACK_DAYS daily
\* changes of bias20 is defined and exceeds +TREND_THRESHOLD.
InUptrend ==
    /\ call.df.len >= MA20_WINDOW + LOOKBACK_DAYS
    /\ \A i \in 1..LOOKBACK_DAYS : call.df.bias[i + 1] - call.df.bias[i] > TREND_THRESHOLD

HasWarning(tag) == \E i \in DOMAIN ret.warnings : ret.warnings[i].tag = tag
IsLimitBuy(o) == o.direction = "BUY" /\ o.type = "LIMIT"
IsMarketBuy(o) == o.direction = "BUY" /\ o.type = "MARKET"

C21_DeepDipBuysInUptrend ==
    /\ Planned /\ InUptrend
    /\ ret.zone = "DEEP_DIP"
    /\ TwoDeepDipBuys

\* An uptrend with the position far below target: the rebalance buys.
C21_RebalanceInUptrend ==
    /\ Planned /\ InUptrend
    /\ OrdersWhere(IsMarketBuy) # {}

-----------------------------------------------------------------------------
(* Properties of the grid-pair exit *)

\* The OPEN pairs of the instrument that analyze reads, by descending buy price
ActivePairs == get_active_pairs(grid_pairs, dbOk, call.code)

\* price >= target_sell_price x 0.995
PriceReached(pair) == call.df.close * PriceScale * 200 >= pair.target_sell_price * 199

ExitOrdersOf(pair) ==
    {i \in OrdersWhere(IsPairExit) : ret.suggested_orders[i].pair = pair.id}
Exited(k) == ExitOrdersOf(ActivePairs[k]) # {}

\* Shares booked by the exits of the pairs read before the k-th one
RECURSIVE BookedBefore(_)
BookedBefore(k) ==
    IF k <= 1 THEN 0
    ELSE BookedBefore(k - 1) +
         (IF Exited(k - 1) THEN ActivePairs[k - 1].buy_amount ELSE 0)

\* The plan holds exactly one well-formed exit order and a warning for the pair.
ExitProposed(pair) ==
    /\ Cardinality(ExitOrdersOf(pair)) = 1
    /\ \A i \in ExitOrdersOf(pair) :
          /\ ret.suggested_orders[i].amount = pair.buy_amount
          /\ ret.suggested_orders[i].price =
                Max(call.df.close * PriceScale, pair.target_sell_price)
    /\ \E w \in DOMAIN ret.warnings :
          ret.warnings[w].tag = "pair_exit" /\ ret.warnings[w].pair = pair.id

\* The trailing stop did not emit its MARKET SELL and the indicators exist.
PairExitReached == Planned /\ WarmedUp /\ OrdersWhere(IsMarketSell) = {}

\* C22 (as claimed): when the trailing stop did not fire, every OPEN pair of
\* the instrument whose threshold the price reached has its LIMIT SELL in the
\* plan, and the pairs below the threshold have none.
C22_AsClaimed ==
    PairExitReached =>
        \A k \in DOMAIN ActivePairs :
            IF PriceReached(ActivePairs[k]) THEN ExitProposed(ActivePairs[k])
            ELSE ~Exited(k)

\* C22 (amended): when the trailing stop did not fire, an OPEN pair returned
\* by get_active_pairs has its LIMIT SELL (buy_amount shares at
\* max(price, target_sell_price), with a warning naming the pair) exactly
\* when the price reached target_sell_price x 0.995 and the available
\* quantity, less the amounts of the pairs exited before it in descending
\* buy-price order, covers its buy_amount; every pair-exit order belongs to
\* such a pair.
C22_PairExitWhileSharesLast ==
    PairExitReached =>
        /\ \A k \in DOMAIN ActivePairs :
              IF /\ PriceReached(ActivePairs[k])
                 /\ InAvailable - BookedBefore(k) >= ActivePairs[k].buy_amount
              THEN ExitProposed(ActivePairs[k])
              ELSE ~Exited(k)
        /\ \A i \in OrdersWhere(IsPairExit) :
              \E k \in DOMAIN ActivePairs :
                  ret.suggested_orders[i].pair = ActivePairs[k].id

\* Two open pairs within reach and shares for both: both exits are proposed.
C22_Witness ==
    /\ PairExitReached
    /\ Len(ActivePairs) = 2
    /\ \A k \in DOMAIN ActivePairs : ExitProposed(ActivePairs[k])

\* The first exit leaves too few shares for the second pair.
C22_SecondPairUncovered ==
    /\ PairExitReached
    /\ Len(ActivePairs) = 2
    /\ Exited(1) /\ ~Exited(2)
    /\ PriceReached(ActivePairs[2])
    /\ InAvailable >= ActivePairs[2].buy_amount

\* An open pair whose threshold the price did not reach: no exit.
C22_BelowThreshold ==
    /\ PairExitReached
    /\ InAvailable >= 1000
    /\ Len(ActivePairs) >= 1
    /\ \A k \in DOMAIN ActivePairs : ~PriceReached(ActivePairs[k]) /\ ~Exited(k)

-----------------------------------------------------------------------------
(* Properties of the order amounts *)

\* The amount of the trailing-stop SELL of the plan
StopSellAmounts == {ret.suggested_orders[i].amount : i \in OrdersWhere(IsMarketSell)}

\* 50% of the holding volume rounded down to a lot multiple
HalfRoundedDown == ((InVolume \div 2) \div LOT_SIZE) * LOT_SIZE

\* C23 (as claimed): the trailing-stop SELL amount is min(50% of the volume
\* rounded down to a lot multiple, available) and never exceeds half of the
\* volume, for every volume > 0.
C23_AsClaimed ==
    Planned =>
        \A a \in StopSellAmounts :
            /\ a = Min(HalfRoundedDown, InAvailable)
            /\ 2 * a <= InVolume

\* C23 (amended): when the stop condition holds and shares are available, the
\* plan holds the trailing-stop SELL, and its amount is min(max(LOT_SIZE, 50%
\* of the volume) rounded down to a lot multiple, available): for a volume of
\* at least two lots that is min(50% rounded down, available), at most half of
\* the volume; below two lots it is min(LOT_SIZE, available).
C23_HalfWithOneLotMinimum ==
    Analyzed =>
        /\ (StopConditionHolds /\ InAvailable > 0) => (~ret.raised /\ StopSellAmounts # {})
        /\ ~ret.raised =>
            \A a \in StopSellAmounts :
                IF InVolume >= 2 * LOT_SIZE
                THEN a = Min(HalfRoundedDown, InAvailable) /\ 2 * a <= InVolume
                ELSE a = Min(LOT_SIZE, InAvailable)

\* A holding of one lot, all of it available: the stop sells the whole lot.
C23_Witness ==
    /\ Planned
    /\ InVolume = LOT_SIZE
    /\ StopSellAmounts = {LOT_SIZE}

\* A holding of ten lots: the stop sells five.
C23_HalfSold ==
    /\ Planned
    /\ InVolume = 1000 /\ InAvailable = 1000
    /\ StopSellAmounts = {500}

\* RSI(14) of the latest bar exceeds RSI_CONFIG.SELL_THRESHOLD
Overbought == WarmedUp /\ call.df.rsi > SELL_THRESHOLD

C24_RebalanceWhileOverbought ==
    /\ Planned /\ Overbought
    /\ HasWarning("rsi_overbought")
    /\ OrdersWhere(IsMarketBuy) # {}

-----------------------------------------------------------------------------
(* Properties of the OSCILLATION / GOLD_ZONE grid *)

\* _detect_trend reports a downtrend: each of the last LOOKBACK_DAYS daily
\* changes of bias20 is defined and below -TREND_THRESHOLD.
InDowntrend ==
    /\ call.df.len >= MA20_WINDOW + LOOKBACK_DAYS
    /\ \A i \in 1..LOOKBACK_DAYS :
          call.df.bias[i + 1] - call.df.bias[i] < 0 - TREND_THRESHOLD

\* Shares booked by the pair exits among the first n orders of the plan
RECURSIVE PairExitTotal(_)
PairExitTotal(n) ==
    IF n = 0 THEN 0
    ELSE PairExitTotal(n - 1) +
         (IF IsPairExit(ret.suggested_orders[n]) THEN ret.suggested_orders[n].amount ELSE 0)

\* Available quantity left after the pair exits of the plan
RemainingAvailable == InAvailable - PairExitTotal(OrderCount)

\* max(roundDownToLot(0.05 x capital / anchor), LOT_SIZE), anchor in cents
BaseLot == Max((((CAPITAL_PER_ETF * 5) \div InAnchor) \div LOT_SIZE) * LOT_SIZE, LOT_SIZE)

\* A plan of zone OSCILLATION or GOLD_ZONE that no terminal rule ended
GridCase ==
    /\ Planned /\ WarmedUp
    /\ ret.zone \in {"OSCILLATION", "GOLD_ZONE"}
    /\ OrdersWhere(IsMarketOrder) = {}

GridSells == {i \in OrdersWhere(IsSell) : ~IsPairExit(ret.suggested_orders[i])}

\* C25: in OSCILLATION and GOLD_ZONE, when no terminal rule fired, the plan
\* holds one LIMIT BUY at anchor - step of one base lot exactly when risk is
\* not triggered, no uptrend lock holds and RSI is below the threshold; and
\* one LIMIT SELL at anchor + step of min(remaining available, base lot)
\* exactly when the remaining available quantity is positive and no
\* downtrend lock holds.
C25_OscillationGrid ==
    GridCase =>
        LET anchor == InAnchor * PriceScale
            step == calc_dynamic_step(call.df.atr, InAnchor, ret.zone)
            buys == OrdersWhere(IsBuy)
        IN /\ buys # {} <=>
                (~ret.risk_triggered /\ ~InUptrend /\ call.df.rsi < SELL_THRESHOLD)
           /\ Cardinality(buys) <= 1
           /\ \A i \in buys :
                 /\ ret.suggested_orders[i].type = "LIMIT"
                 /\ ret.suggested_orders[i].price = anchor - step
                 /\ ret.suggested_orders[i].amount = BaseLot
           /\ GridSells # {} <=> (RemainingAvailable > 0 /\ ~InDowntrend)
           /\ Cardinality(GridSells) <= 1
           /\ \A i \in GridSells :
                 /\ ret.suggested_orders[i].type = "LIMIT"
                 /\ ret.suggested_orders[i].price = anchor + step
                 /\ ret.suggested_orders[i].amount = Min(RemainingAvailable, BaseLot)

\* The example of the claim: price 10.00, anchor (ma5) 10.10, atr14 0.20 in
\* GOLD_ZONE (coefficient 1.0) gives the BUY at 9.90 and the SELL at 10.30,
\* the SELL placed after a pair exit from what is left of the available
\* quantity.
C25_Witness ==
    /\ GridCase
    /\ ret.zone = "GOLD_ZONE"
    /\ call.df.close = 1000 /\ call.df.ma5 = 1010 /\ call.df.atr = 20
    /\ OrdersWhere(IsPairExit) # {}
    /\ \E i \in OrdersWhere(IsBuy) : ret.suggested_orders[i].price = 990 * PriceScale
    /\ \E i \in GridSells :
          /\ ret.suggested_orders[i].price = 1030 * PriceScale
          /\ ret.suggested_orders[i].amount = Min(RemainingAvailable, BaseLot)

\* A downtrend withholds the grid SELL although shares are available.
C25_DowntrendWithholdsSell ==
    /\ GridCase
    /\ InDowntrend
    /\ RemainingAvailable > 0
    /\ GridSells = {}

\* Shares offered by the SELL orders among the first n orders of the plan
RECURSIVE SellTotal(_)
SellTotal(n) ==
    IF n = 0 THEN 0
    ELSE SellTotal(n - 1) +
         (IF IsSell(ret.suggested_orders[n]) THEN ret.suggested_orders[n].amount ELSE 0)

\* C27: in every plan analyze returns, the amounts of all SELL orders
\* (trailing-stop SELL, pair-exit SELLs, grid SELL) together do not exceed the
\* available quantity passed in.
C27_SellsWithinAvailable == Planned => SellTotal(OrderCount) <= InAvailable

\* Two pair exits use up the available quantity: no grid SELL is added.
C27_Witness ==
    /\ Planned
    /\ Cardinality(OrdersWhere(IsPairExit)) = 2
    /\ SellTotal(OrderCount) = InAvailable
    /\ GridSells = {}

\* A pair exit and a grid SELL share the available quantity.
C27_ExitAndGridSell ==
    /\ Planned
    /\ OrdersWhere(IsPairExit) # {}
    /\ GridSells # {}
    /\ SellTotal(OrderCount) = InAvailable

-----------------------------------------------------------------------------
(* Properties of the reduce and escape zones *)

\* C29: when the zone is REDUCE_ZONE or ESCAPE_ZONE (status ESCAPE_HIGH
\* included) the plan holds no BUY order, whatever the deviation from the
\* target position, RSI, trend or ledger content: it holds SELL orders only.
C29_NoBuyInReduceAndEscape ==
    (Planned /\ WarmedUp /\ ret.zone \in {"REDUCE_ZONE", "ESCAPE_ZONE"}) =>
        /\ OrdersWhere(IsBuy) = {}
        /\ \A i \in DOMAIN ret.suggested_orders : IsSell(ret.suggested_orders[i])

\* REDUCE_ZONE with the position more than 0.15 below target, no risk, no
\* uptrend, RSI 50: a pair exit and the reduce SELL, and no BUY.
C29_Witness ==
    /\ Planned /\ WarmedUp
    /\ ret.zone = "REDUCE_ZONE"
    /\ InDeviation > REBALANCE_THRESHOLD * CAPITAL_PER_ETF
    /\ ~ret.risk_triggered /\ ~InUptrend /\ call.df.rsi < SELL_THRESHOLD
    /\ OrderCount = 2
    /\ OrdersWhere(IsBuy) = {}

\* Status ESCAPE_HIGH: SELL orders only.
C29_EscapeHigh ==
    /\ Planned /\ WarmedUp
    /\ ret.zone = "ESCAPE_ZONE" /\ ret.market_status = "ESCAPE_HIGH"
    /\ OrderCount >= 1
    /\ OrdersWhere(IsBuy) = {}

-----------------------------------------------------------------------------
(* Properties of analyze and of the pair statuses over ledger histories *)

\* Ids of the pairs for which a plan proposes a pair-exit SELL
ProposedPairs(plan) ==
    {plan.suggested_orders[i].pair :
        i \in {j \in DOMAIN plan.suggested_orders : IsPairExit(plan.suggested_orders[j])}}

HasStatus(pairs, id, status) ==
    \E i \in DOMAIN pairs : pairs[i].id = id /\ pairs[i].status = status

C26_Step ==
    /\ call'.op = "analyze" =>
          /\ UNCHANGED <<triggered_grids, grid_pairs, trade_history>>
          /\ \A id \in ProposedPairs(ret') : HasStatus(grid_pairs', id, "OPEN")
          /\ ProposedPairs(analyze(call'.code, call'.df, call'.holdings,
                                   grid_pairs', dbOk')) = ProposedPairs(ret')
    /\ (call.op = "analyze" /\ call'.op # "close_pair") =>
          \A id \in ProposedPairs(ret) : HasStatus(grid_pairs', id, "OPEN")

\* C26: analyze leaves the grid pairs and their statuses, the trigger records
\* and the trade history as they were; a pair for which it proposed a
\* pair-exit SELL is still OPEN, is proposed again by the next analyze call on
\* the same data, and stays OPEN through every ledger call other than
\* close_pair.
C26_AnalyzeLeavesLedger == [][C26_Step]_vars

\* analyze proposed the exit of the open pair and left the closed one alone.
C26_Witness ==
    /\ Returned("analyze")
    /\ Len(grid_pairs) = 2
    /\ Cardinality(ProposedPairs(ret)) = 1
    /\ \A id \in ProposedPairs(ret) : HasStatus(grid_pairs, id, "OPEN")
    /\ \E i \in DOMAIN grid_pairs :
          grid_pairs[i].code = call.code /\ grid_pairs[i].status = "CLOSED"

PairIds(pairs) == {pairs[i].id : i \in DOMAIN pairs}

C28_Step ==
    \* every pair is kept with its id and data; CLOSED stays CLOSED
    /\ \A i \in DOMAIN grid_pairs :
          /\ i \in DOMAIN grid_pairs'
          /\ [grid_pairs'[i] EXCEPT !.status = "OPEN"]
                = [grid_pairs[i] EXCEPT !.status = "OPEN"]
          /\ grid_pairs[i].status = "CLOSED" => grid_pairs'[i].status = "CLOSED"
    \* ids are never shared, so a new pair takes no earlier pair's id
    /\ Cardinality(PairIds(grid_pairs')) = Len(grid_pairs')
    /\ call'.op = "get_active_pairs" =>
          \A k \in DOMAIN ret' :
              /\ ret'[k].status = "OPEN"
              /\ HasStatus(grid_pairs', ret'[k].id, "OPEN")
              /\ ~HasStatus(grid_pairs', ret'[k].id, "CLOSED")
    /\ call'.op = "close_pair" =>
          \A i \in DOMAIN grid_pairs :
              (grid_pairs[i].id # call'.pair_id \/ grid_pairs[i].status = "CLOSED")
                  => grid_pairs'[i] = grid_pairs[i]
    /\ call'.op = "add_grid_pair" =>
          \A i \in DOMAIN grid_pairs : grid_pairs'[i] = grid_pairs[i]

\* C28: over any sequence of add_grid_pair, close_pair and get_active_pairs
\* calls a pair's status only moves from OPEN to CLOSED: a closed pair stays
\* closed and is not returned by get_active_pairs, closing a closed or
\* non-existent id changes no pair, and add_grid_pair neither changes an
\* existing pair nor reuses an id.
C28_StatusOnlyCloses == [][C28_Step]_vars

\* A pair was added after the first one had been closed: it took a new id
\* and the closed pair stayed closed.
C28_Witness ==
    /\ Returned("add_grid_pair")
    /\ dbOk
    /\ Len(grid_pairs) = 2
    /\ grid_pairs[1].status = "CLOSED"
    /\ grid_pairs[2].status = "OPEN"
    /\ grid_pairs[2].id # grid_pairs[1].id
    /\ grid_pairs[2].code = grid_pairs[1].code

\* close_pair was called for an id that is already closed.
C28_ClosedAgain ==
    /\ Returned("close_pair")
    /\ dbOk
    /\ HasStatus(grid_pairs, call.pair_id, "CLOSED")
    /\ \E i \in DOMAIN grid_pairs : grid_pairs[i].status = "OPEN"

-----------------------------------------------------------------------------
(* Properties of the trigger loop when orders are refused *)

\* The quote of the code is within the alert band of the order
InBand(rd, code, order) ==
    /\ code \in DOMAIN rd
    /\ rd[code] > 0
    /\ WithinAlert(rd[code], order.price)

\* Pending orders i < j of one plan with the same direction and prices less
\* than 0.0001 apart
Twins(code) ==
    {t \in (DOMAIN pending_orders[code]) \X (DOMAIN pending_orders[code]) :
        /\ t[1] < t[2]
        /\ pending_orders[code][t[1]].direction = pending_orders[code][t[2]].direction
        /\ Abs(pending_orders[code][t[1]].price - pending_orders[code][t[2]].price)
              < PRICE_TOLERANCE}

C30_Step ==
    (call'.op = "check_triggers" /\ dbOk) =>
        \* marked before notified: what this call notified or submitted is marked
        /\ \A l \in BagToSet(signals') \cup BagToSet(submitted') :
              (l.ledger_ok /\ l.date = today) =>
                  is_grid_triggered(triggered_grids', TRUE, l.date, l.code, l.price,
                                    l.direction)
        \* a level whose order was refused today is not notified or submitted again
        /\ \A r \in BagToSet(order_results) :
              (r.level.ledger_ok /\ r.level.date = today /\ ~r.success) =>
                  /\ CopiesIn(r.level, signals') = 1
                  /\ CopiesIn(r.level, submitted') = 1
                  /\ CopiesIn(r, order_results') = 1
        \* of two twins both within the band and not marked before, only the
        \* first is notified and submitted
        /\ \A code \in Codes : \A t \in Twins(code) :
              LET first == Level(today, code, pending_orders[code][t[1]], TRUE)
                  second == Level(today, code, pending_orders[code][t[2]], TRUE)
              IN (/\ InBand(call'.realtime_data, code, pending_orders[code][t[1]])
                  /\ InBand(call'.realtime_data, code, pending_orders[code][t[2]])
                  /\ ~is_grid_triggered(triggered_grids, TRUE, today, code, first.price,
                                        first.direction)
                  /\ first # second)
                 => /\ CopiesIn(first, signals') = 1
                    /\ CopiesIn(first, submitted') = 1
                    /\ CopiesIn(second, signals') = CopiesIn(second, signals)
                    /\ CopiesIn(second, submitted') = CopiesIn(second, submitted)

\* C30: with the ledger working, check_triggers marks a level that comes
\* within the alert band before it notifies and submits it, so a level whose
\* order was not placed (not connected, over MAX_ORDER_VALUE, declined) is not
\* notified or submitted again that day; and of two pending orders of one plan
\* with the same direction and prices less than 0.0001 apart only the first is
\* notified and submitted.
C30_MarkedBeforeSubmitted == [][C30_Step]_vars

\* A check_triggers call with a working ledger meets a quote within the band
\* of a pending level whose order was refused earlier today, and leaves it.
C30_Witness ==
    /\ Returned("check_triggers")
    /\ dbOk
    /\ ret = <<>>
    /\ \E r \in BagToSet(order_results) :
          /\ ~r.success
          /\ r.level.ledger_ok
          /\ r.level.date = today
          /\ CopiesIn(r.level, signals) = 1
          /\ \E i \in DOMAIN pending_orders[r.level.code] :
                /\ pending_orders[r.level.code][i].price = r.level.price
                /\ pending_orders[r.level.code][i].direction = r.level.direction
                /\ InBand(call.realtime_data, r.level.code,
                          pending_orders[r.level.code][i])

\* The refused order was over MAX_ORDER_VALUE.
C30_OverLimitNotRetried ==
    /\ Returned("check_triggers")
    /\ dbOk
    /\ ret = <<>>
    /\ call.broker = "accepted"
    /\ \E r \in BagToSet(order_results) :
          /\ ~r.success
          /\ r.level.ledger_ok /\ r.level.date = today
          /\ r.level.price * r.volume > MAX_ORDER_VALUE * 100 * PriceScale
          /\ InBand(call.realtime_data, r.level.code, r.level)
          /\ CopiesIn(r.level, submitted) = 1
          /\ \A q \in BagToSet(order_results) : q.level = r.level => q = r

\* Both pair exits were within the band: the first was notified, its twin,
\* 0.00005 below, never.
C30_TwinSkipped ==
    /\ Returned("check_triggers")
    /\ dbOk
    /\ \E t \in Twins("sh510050") :
          LET first == Level(today, "sh510050", pending_orders["sh510050"][t[1]], TRUE)
              second == Level(today, "sh510050", pending_orders["sh510050"][t[2]], TRUE)
          IN /\ first.price # second.price
             /\ InBand(call.realtime_data, "sh510050", pending_orders["sh510050"][t[2]])
             /\ CopiesIn(first, signals) = 1
             /\ TimesIn(signals, second) = 0

=============================================================================
